---- MODULE Spec2Model ----
(***************************************************************************)
(* BMP390 calibration decoding, forward compensation and inverse search    *)
(* (src/unnamed/part_000, src/unnamed/part_001).                           *)
(*                                                                         *)
(* The C code computes in IEEE-754 binary64 (`double`).  A double is       *)
(* modelled here exactly, as the dyadic rational sgn * man * 2^exp with    *)
(* man an odd natural number below 2^53 (zero: man = <<>>); every          *)
(* arithmetic operation computes the exact result and rounds it to nearest,*)
(* ties to even, as the hardware does.  Natural numbers wider than TLC's   *)
(* integers are little-endian sequences of 14-bit limbs.  Evaluation is    *)
(* strict binary64 (FLT_EVAL_METHOD 0, no fused multiply-add); exponents   *)
(* stay far inside the binary64 range for all values that occur, and the   *)
(* sign of zero, which no comparison of the code observes, is not kept.    *)
(***************************************************************************)
EXTENDS Integers, Sequences, FiniteSets, TLC

(* ----------------------------------------------------------------------- *)
(* Natural numbers as limb sequences                                       *)
(* ----------------------------------------------------------------------- *)
Radix == 2^14

Limb(a, i) == IF i <= Len(a) THEN a[i] ELSE 0

RECURSIVE Trim(_)
Trim(a) ==
    IF a = <<>> \/ a[Len(a)] # 0 THEN a ELSE Trim(SubSeq(a, 1, Len(a) - 1))

RECURSIVE NatOfInt(_)
NatOfInt(n) == IF n = 0 THEN <<>> ELSE <<n % Radix>> \o NatOfInt(n \div Radix)

RECURSIVE AddFrom(_, _, _, _)
AddFrom(a, b, i, c) ==
    IF i > Len(a) /\ i > Len(b)
    THEN IF c = 0 THEN <<>> ELSE <<c>>
    ELSE LET s == Limb(a, i) + Limb(b, i) + c
         IN  <<s % Radix>> \o AddFrom(a, b, i + 1, s \div Radix)

NatAdd(a, b) == AddFrom(a, b, 1, 0)

RECURSIVE SubFrom(_, _, _, _)
SubFrom(a, b, i, c) ==
    IF i > Len(a)
    THEN <<>>
    ELSE LET s == Limb(a, i) - Limb(b, i) - c
         IN  IF s < 0
             THEN <<s + Radix>> \o SubFrom(a, b, i + 1, 1)
             ELSE <<s>> \o SubFrom(a, b, i + 1, 0)

\* a - b for a >= b
NatSub(a, b) == Trim(SubFrom(a, b, 1, 0))

RECURSIVE CmpFrom(_, _, _)
CmpFrom(a, b, i) ==
    IF i = 0 THEN 0
    ELSE IF a[i] > b[i] THEN 1
    ELSE IF a[i] < b[i] THEN -1
    ELSE CmpFrom(a, b, i - 1)

\* 1, 0, -1 as a > b, a = b, a < b
NatCmp(a, b) ==
    IF Len(a) > Len(b) THEN 1
    ELSE IF Len(a) < Len(b) THEN -1
    ELSE CmpFrom(a, b, Len(a))

RECURSIVE MulLimbFrom(_, _, _, _)
MulLimbFrom(a, k, i, c) ==
    IF i > Len(a)
    THEN IF c = 0 THEN <<>> ELSE <<c>>
    ELSE LET s == a[i] * k + c
         IN  <<s % Radix>> \o MulLimbFrom(a, k, i + 1, s \div Radix)

RECURSIVE MulFrom(_, _, _)
MulFrom(a, b, j) ==
    IF j > Len(b)
    THEN <<>>
    ELSE NatAdd(MulLimbFrom(a, b[j], 1, 0), <<0>> \o MulFrom(a, b, j + 1))

NatMul(a, b) == Trim(MulFrom(a, b, 1))

RECURSIVE DivLimbFrom(_, _, _, _)
PushDigit(rest, digit) == [q |-> Append(rest.q, digit), rem |-> rest.rem]

DivLimbFrom(a, d, i, r) ==
    IF i = 0
    THEN [q |-> <<>>, rem |-> r]
    ELSE PushDigit(DivLimbFrom(a, d, i - 1, (r * Radix + a[i]) % d),
                   (r * Radix + a[i]) \div d)

\* quotient and remainder of a by d, 0 < d < Radix
TrimQuot(qr) == [q |-> Trim(qr.q), rem |-> qr.rem]

NatDivLimb(a, d) == TrimQuot(DivLimbFrom(a, d, Len(a), 0))

RECURSIVE BitLenInt(_)
BitLenInt(n) == IF n = 0 THEN 0 ELSE 1 + BitLenInt(n \div 2)

BitLen(a) == IF a = <<>> THEN 0 ELSE 14 * (Len(a) - 1) + BitLenInt(a[Len(a)])

ShiftLeft(a, n) ==
    IF a = <<>> THEN <<>>
    ELSE [i \in 1..(n \div 14) |-> 0] \o MulLimbFrom(a, 2^(n % 14), 1, 0)

ShiftBits(t, r) ==
    Trim([i \in 1..Len(t) |->
            (t[i] \div 2^r) + (Limb(t, i + 1) % 2^r) * 2^(14 - r)])

ShiftRight(a, n) ==
    ShiftBits(IF n \div 14 >= Len(a) THEN <<>>
              ELSE SubSeq(a, n \div 14 + 1, Len(a)), n % 14)

RECURSIVE TzInt(_)
TzInt(n) == IF n % 2 = 1 THEN 0 ELSE 1 + TzInt(n \div 2)

RECURSIVE TzFrom(_, _)
TzFrom(a, i) == IF a[i] = 0 THEN 14 + TzFrom(a, i + 1) ELSE TzInt(a[i])

(* ----------------------------------------------------------------------- *)
(* binary64 values and operations                                          *)
(* ----------------------------------------------------------------------- *)
Zero == [sgn |-> 1, man |-> <<>>, exp |-> 0]

\* the canonical form of sgn * m * 2^e: odd mantissa
Odd(s, m, e, z) == [sgn |-> s, man |-> ShiftRight(m, z), exp |-> e + z]

Canon(s, m, e) == IF m = <<>> THEN Zero ELSE Odd(s, m, e, TzFrom(m, 1))

\* s * q * 2^e, q being m with its low bits dropped and c telling how the
\* dropped bits compare with half a unit of q: to nearest, ties to even
RoundUp(s, q, e, c) ==
    Canon(s, IF c > 0 \/ (c = 0 /\ q[1] % 2 = 1) THEN NatAdd(q, <<1>>) ELSE q, e)

RoundQuot(s, m, e, sh, q) ==
    RoundUp(s, q, e + sh,
            NatCmp(NatSub(m, ShiftLeft(q, sh)), ShiftLeft(<<1>>, sh - 1)))

RoundShift(s, m, e, sh) == RoundQuot(s, m, e, sh, ShiftRight(m, sh))

RoundLen(s, m, e, len) ==
    IF len <= 53 THEN Canon(s, m, e) ELSE RoundShift(s, m, e, len - 53)

\* s * m * 2^e rounded to a 53-bit significand, to nearest, ties to even
RoundNearestEven(s, m, e) == RoundLen(s, m, e, BitLen(m))

\* sx * mx * 2^e + sy * my * 2^e for different signs, c comparing mx with my
SignedDiff(sx, mx, sy, my, e, c) ==
    IF c = 0 THEN Zero
    ELSE IF c > 0 THEN [sgn |-> sx, man |-> NatSub(mx, my), exp |-> e]
    ELSE [sgn |-> sy, man |-> NatSub(my, mx), exp |-> e]

AlignedSum(sx, mx, sy, my, e) ==
    IF sx = sy THEN [sgn |-> sx, man |-> NatAdd(mx, my), exp |-> e]
    ELSE SignedDiff(sx, mx, sy, my, e, NatCmp(mx, my))

SumAt(x, y, e) ==
    AlignedSum(x.sgn, ShiftLeft(x.man, x.exp - e),
               y.sgn, ShiftLeft(y.man, y.exp - e), e)

\* the exact sum of two doubles, not normalised
ExactSum(x, y) == SumAt(x, y, IF x.exp < y.exp THEN x.exp ELSE y.exp)

RoundValue(v) == RoundNearestEven(v.sgn, v.man, v.exp)

IsNegative(v) == v.man # <<>> /\ v.sgn = -1

DNeg(x) == IF x.man = <<>> THEN x ELSE [x EXCEPT !.sgn = -x.sgn]

\* the operands are looked at first (x + 0 = x), so a nested expression is
\* evaluated innermost first
DAdd(x, y) ==
    IF x.man = <<>> THEN y
    ELSE IF y.man = <<>> THEN x
    ELSE RoundValue(ExactSum(x, y))

DSub(x, y) == DAdd(x, DNeg(y))

DMul(x, y) ==
    IF x.man = <<>> \/ y.man = <<>> THEN Zero
    ELSE RoundNearestEven(x.sgn * y.sgn, NatMul(x.man, y.man), x.exp + y.exp)

\* x < y
DLess(x, y) == IsNegative(ExactSum(x, DNeg(y)))

fabs(x) == [x EXCEPT !.sgn = 1]

\* (double)n for an integer n
DFromInt(n) == Canon(IF n < 0 THEN -1 ELSE 1, NatOfInt(IF n < 0 THEN -n ELSE n), 0)

\* x / 2^k (k may be negative): exact
DDivPow2(x, k) == IF x.man = <<>> THEN x ELSE [x EXCEPT !.exp = @ - k]

\* x / d for an integer 0 < d < Radix, correctly rounded
QuotSticky(qr) ==
    NatAdd(ShiftLeft(qr.q, 1), IF qr.rem = 0 THEN <<>> ELSE <<1>>)

DDivSmall(x, d) ==
    IF x.man = <<>> THEN x
    ELSE RoundNearestEven(x.sgn, QuotSticky(NatDivLimb(ShiftLeft(x.man, 70), d)),
                          x.exp - 71)

\* the double a decimal literal n/d denotes (23.45 is Dec(2345, 100))
Dec(n, d) == DDivSmall(DFromInt(n), d)

(* ----------------------------------------------------------------------- *)
(* Fixed-width integer conversions of the calibration decoder              *)
(* ----------------------------------------------------------------------- *)
\* (uint16_t)v, (int16_t)v, (int8_t)v of an int v: the low bits, reinterpreted
ToU16(v) == v % 65536

\* a 16-bit field read without its sign
ToI16_unsigned(v) == v % 65536

ToI16(v) == LET u == v % 65536 IN IF u >= 32768 THEN u - 65536 ELSE u

\* an 8-bit field read without its sign
ToI8_unsigned(v) == v % 256

ToI8(v) == LET u == v % 256 IN IF u >= 128 THEN u - 256 ELSE u

\* a | b on the low 16 bits (every result below is stored in 16 bits)
RECURSIVE Or16From(_, _, _)
Or16From(a, b, n) ==
    IF n = 0 THEN 0
    ELSE (IF a % 2 = 1 \/ b % 2 = 1 THEN 1 ELSE 0)
         + 2 * Or16From(a \div 2, b \div 2, n - 1)

Or16(a, b) == Or16From(a % 65536, b % 65536, 16)

(* ----------------------------------------------------------------------- *)
(* Reverse calculator (src/unnamed/part_001): calibration and test data    *)
(* ----------------------------------------------------------------------- *)
\* raw_calib_bytes of main, as a 0-indexed array
raw_calib_bytes ==
    [i \in 0..20 |->
        <<203, 104, 104, 102, 3,
          233, 190, 113, 213, 7, 5,
          255, 159, 255, 159, 15, 254,
          0, 224, 224, 235>>[i + 1]]

\* the temporaries of the decoder with par_p9 read one byte further on
parse_raw_fields_shifted(b) ==
    [par_t1  |-> ToU16(Or16(ToU16(b[1] * 256), b[0])),
     par_t2  |-> ToU16(Or16(ToU16(b[3] * 256), b[2])),
     par_t3  |-> ToI8(b[4]),
     par_p1  |-> ToI16(Or16(ToI16(b[6] * 256), b[5])),
     par_p2  |-> ToI16(Or16(ToI16(b[8] * 256), b[7])),
     par_p3  |-> ToI8(b[9]),
     par_p4  |-> ToI8(b[10]),
     par_p5  |-> ToU16(Or16(ToU16(b[12] * 256), b[11])),
     par_p6  |-> ToU16(Or16(ToU16(b[14] * 256), b[13])),
     par_p7  |-> ToI8(b[15]),
     par_p8  |-> ToI8(b[16]),
     par_p9  |-> ToI16(Or16(ToI16(b[19] * 256), b[18])),
     par_p10 |-> ToI8(b[19]),
     par_p11 |-> ToI8(b[20])]

\* the temporaries par_t1 .. par_p11 of the decoder: the fields as the casts
\* and shifts of the code extract them from the register bytes
parse_raw_fields(b) ==
    [par_t1  |-> ToU16(Or16(ToU16(b[1] * 256), b[0])),
     par_t2  |-> ToU16(Or16(ToU16(b[3] * 256), b[2])),
     par_t3  |-> ToI8(b[4]),
     par_p1  |-> ToI16(Or16(ToI16(b[6] * 256), b[5])),
     par_p2  |-> ToI16(Or16(ToI16(b[8] * 256), b[7])),
     par_p3  |-> ToI8(b[9]),
     par_p4  |-> ToI8(b[10]),
     par_p5  |-> ToU16(Or16(ToU16(b[12] * 256), b[11])),
     par_p6  |-> ToU16(Or16(ToU16(b[14] * 256), b[13])),
     par_p7  |-> ToI8(b[15]),
     par_p8  |-> ToI8(b[16]),
     par_p9  |-> ToI16(Or16(ToI16(b[18] * 256), b[17])),
     par_p10 |-> ToI8(b[19]),
     par_p11 |-> ToI8(b[20])]

\* the quantization: each field divided by its constant
quantize_fields(f, t_lin0) ==
    [par_t1  |-> DDivPow2(DFromInt(f.par_t1), -8),
     par_t2  |-> DDivPow2(DFromInt(f.par_t2), 30),
     par_t3  |-> DDivPow2(DFromInt(f.par_t3), 48),
     par_p1  |-> DDivPow2(DSub(DFromInt(f.par_p1), DFromInt(16384)), 20),
     par_p2  |-> DDivPow2(DSub(DFromInt(f.par_p2), DFromInt(16384)), 29),
     par_p3  |-> DDivPow2(DFromInt(f.par_p3), 32),
     par_p4  |-> DDivPow2(DFromInt(f.par_p4), 37),
     par_p5  |-> DDivPow2(DFromInt(f.par_p5), -3),
     par_p6  |-> DDivPow2(DFromInt(f.par_p6), 6),
     par_p7  |-> DDivPow2(DFromInt(f.par_p7), 8),
     par_p8  |-> DDivPow2(DFromInt(f.par_p8), 15),
     par_p9  |-> DDivPow2(DFromInt(f.par_p9), 48),
     par_p10 |-> DDivPow2(DFromInt(f.par_p10), 48),
     par_p11 |-> DDivPow2(DFromInt(f.par_p11), 65),
     t_lin   |-> t_lin0]

\* main's inline decode and quantization of a 21-byte block; t_lin is left
\* as it was (main never initialises it)
decode_calib(b, t_lin0) == quantize_fields(parse_raw_fields(b), t_lin0)

(* ----------------------------------------------------------------------- *)
(* Forward compensation (src/unnamed/part_001)                             *)
(* ----------------------------------------------------------------------- *)
RECURSIVE pow_bmp3_loop(_, _, _)
pow_bmp3_loop(result, base, n) ==
    IF n = 0 THEN result ELSE pow_bmp3_loop(DMul(result, base), base, n - 1)

pow_bmp3(base, power) == pow_bmp3_loop(DFromInt(1), base, power)

\* a compensation without its second-order term
t_lin_from_linear(partial_data1, c) == DMul(partial_data1, c.par_t2)

\* the value compensate_temperature stores in calib->t_lin (and returns)
t_lin_from(partial_data1, c) ==
    DAdd(DMul(partial_data1, c.par_t2),
         DMul(DMul(partial_data1, partial_data1), c.par_t3))

\* the subtraction with its operands exchanged
temperature_t_lin_swapped(uncomp_temp, c) ==
    t_lin_from(DSub(c.par_t1, DFromInt(uncomp_temp)), c)

temperature_t_lin(uncomp_temp, c) ==
    t_lin_from(DSub(DFromInt(uncomp_temp), c.par_t1), c)

\* a compensation that returns t without storing it
stored_not(c, t) == [calib |-> c, ret |-> t]

\* what a function that stores t in c->t_lin and returns c->t_lin yields
stored(c, t) == [calib |-> [c EXCEPT !.t_lin = t], ret |-> t]

\* compensate_temperature: the coefficients after the call, and the result
compensate_temperature(uncomp_temp, c) ==
    stored(c, temperature_t_lin(uncomp_temp, c))

compensate_pressure(uncomp_press, c) ==
    LET up   == DFromInt(uncomp_press)
        o1   == DMul(c.par_p6, c.t_lin)
        o2   == DMul(c.par_p7, pow_bmp3(c.t_lin, 2))
        o3   == DMul(c.par_p8, pow_bmp3(c.t_lin, 3))
        partial_out1 == DAdd(DAdd(DAdd(c.par_p5, o1), o2), o3)
        s1   == DMul(c.par_p2, c.t_lin)
        s2   == DMul(c.par_p3, pow_bmp3(c.t_lin, 2))
        s3   == DMul(c.par_p4, pow_bmp3(c.t_lin, 3))
        partial_out2 == DMul(up, DAdd(DAdd(DAdd(c.par_p1, s1), s2), s3))
        partial_data1 == pow_bmp3(up, 2)
        partial_data2 == DAdd(c.par_p9, DMul(c.par_p10, c.t_lin))
        partial_data3 == DMul(partial_data1, partial_data2)
        partial_data4 == DAdd(partial_data3, DMul(pow_bmp3(up, 3), c.par_p11))
    IN  DAdd(DAdd(partial_out1, partial_out2), partial_data4)

(* ----------------------------------------------------------------------- *)
(* First simulator (src/unnamed/part_000): integer coefficients, global    *)
(* t_lin                                                                   *)
(* ----------------------------------------------------------------------- *)
\* main's calib: par_p5 and par_p6 are 0xFFFFFFFF & (-94) and 0xFFFFFFFF & (-7)
\* stored in uint16_t fields
simulator_calib ==
    [par_t1 |-> 26811, par_t2 |-> 26184, par_t3 |-> 3,
     par_p1 |-> -16647, par_p2 |-> -10879, par_p3 |-> 7, par_p4 |-> 5,
     par_p5 |-> ToU16(-94), par_p6 |-> ToU16(-7),
     par_p7 |-> 15, par_p8 |-> -2, par_p9 |-> -8192,
     par_p10 |-> -32, par_p11 |-> -21]

\* the double 2^k
TwoTo(k) == DDivPow2(DFromInt(1), -k)

\* x / 100.0 and x / 25600.0 (25600 = 25 * 2^10: the division by 2^10 is exact)
DivBy100(x) == DDivSmall(x, 100)

DivBy25600(x) == DDivPow2(DDivSmall(x, 25), 10)

\* the first simulator's bmp390_compensate_temperature: the value it stores
\* in the global t_lin, and the value it returns
simulator_compensate_temperature(uncomp_temp, c) ==
    LET partial_data1 == DSub(DFromInt(uncomp_temp),
                              DMul(DFromInt(256), DFromInt(c.par_t1)))
        partial_data2 == DMul(DFromInt(c.par_t2), partial_data1)
        partial_data3 == DMul(partial_data1, partial_data1)
        partial_data4 == DMul(partial_data3, DFromInt(c.par_t3))
        partial_data5 == DAdd(DMul(partial_data2, TwoTo(18)), partial_data4)
        partial_data6 == DDivPow2(partial_data5, 32)
    IN  [t_lin |-> partial_data6, ret |-> DivBy100(partial_data6)]

\* offset and sensitivity of the first simulator's bmp390_compensate_pressure
simulator_offset(c, t) ==
    LET partial_data1 == DMul(t, t)
        partial_data2 == DDivPow2(partial_data1, 6)
        partial_data3 == DDivPow2(DMul(partial_data2, t), 8)
        partial_data4 == DMul(DFromInt(c.par_p8), partial_data3)
        partial_data5 == DMul(DMul(DFromInt(c.par_p7), partial_data1), DFromInt(16))
        partial_data6 == DMul(DMul(DFromInt(c.par_p6), t), TwoTo(22))
    IN  DAdd(DAdd(DAdd(DMul(DFromInt(c.par_p5), TwoTo(47)), partial_data4),
                  partial_data5), partial_data6)

simulator_sensitivity(c, t) ==
    LET partial_data1 == DMul(t, t)
        partial_data3 == DDivPow2(DMul(DDivPow2(partial_data1, 6), t), 8)
        partial_data2 == DMul(DFromInt(c.par_p4), partial_data3)
        partial_data4 == DMul(DMul(DFromInt(c.par_p3), partial_data1), DFromInt(4))
        partial_data5 == DMul(DMul(DSub(DFromInt(c.par_p2), DFromInt(16384)), t),
                              TwoTo(21))
    IN  DAdd(DAdd(DAdd(DMul(DSub(DFromInt(c.par_p1), DFromInt(16384)), TwoTo(46)),
                       partial_data2), partial_data4), partial_data5)

\* the first simulator's bmp390_compensate_pressure, t being the global t_lin
simulator_compensate_pressure(uncomp_press, c, t) ==
    LET up == DFromInt(uncomp_press)
        partial_data1 == DMul(DDivPow2(simulator_sensitivity(c, t), 24), up)
        partial_data3 == DAdd(DMul(DFromInt(c.par_p10), t),
                              DMul(TwoTo(16), DFromInt(c.par_p9)))
        partial_data5 == DDivPow2(DDivPow2(DMul(partial_data3, up), 13), 9)
        partial_data6 == DMul(up, up)
        partial_data2 == DDivPow2(DMul(DFromInt(c.par_p11), partial_data6), 16)
        partial_data7 == DDivPow2(DMul(partial_data2, up), 7)
        partial_data4 == DAdd(DAdd(DAdd(DDivPow2(simulator_offset(c, t), 2),
                                        partial_data1), partial_data5), partial_data7)
    IN  DivBy25600(partial_data4)

(* ----------------------------------------------------------------------- *)
(* Corrected simulator (src/unnamed/part_000): quantized coefficients,     *)
(* t_lin kept in the coefficients                                          *)
(* ----------------------------------------------------------------------- *)
\* main's raw_calib_data[21]
raw_calib_data ==
    [k \in 0..20 |->
        <<203, 104, 104, 102, 3,
          233, 190, 113, 213, 7, 5,
          255, 159, 255, 159, 15, 254,
          0, 224, 224, 235>>[k + 1]]

\* the temporaries with par_p9 read one byte further on
bmp390_raw_fields_shifted(b) ==
    [par_t1  |-> ToU16(Or16(ToU16(b[1] * 256), b[0])),
     par_t2  |-> ToU16(Or16(ToU16(b[3] * 256), b[2])),
     par_t3  |-> ToI8(b[4]),
     par_p1  |-> ToI16(Or16(ToI16(b[6] * 256), b[5])),
     par_p2  |-> ToI16(Or16(ToI16(b[8] * 256), b[7])),
     par_p3  |-> ToI8(b[9]),
     par_p4  |-> ToI8(b[10]),
     par_p5  |-> ToU16(Or16(ToU16(b[12] * 256), b[11])),
     par_p6  |-> ToU16(Or16(ToU16(b[14] * 256), b[13])),
     par_p7  |-> ToI8(b[15]),
     par_p8  |-> ToI8(b[16]),
     par_p9  |-> ToI16(Or16(ToI16(b[19] * 256), b[18])),
     par_p10 |-> ToI8(b[19]),
     par_p11 |-> ToI8(b[20])]

\* bmp390_parse_calib_data's temporaries par_t1 .. par_p11
bmp390_raw_fields(b) ==
    [par_t1  |-> ToU16(Or16(ToU16(b[1] * 256), b[0])),
     par_t2  |-> ToU16(Or16(ToU16(b[3] * 256), b[2])),
     par_t3  |-> ToI8(b[4]),
     par_p1  |-> ToI16(Or16(ToI16(b[6] * 256), b[5])),
     par_p2  |-> ToI16(Or16(ToI16(b[8] * 256), b[7])),
     par_p3  |-> ToI8(b[9]),
     par_p4  |-> ToI8(b[10]),
     par_p5  |-> ToU16(Or16(ToU16(b[12] * 256), b[11])),
     par_p6  |-> ToU16(Or16(ToU16(b[14] * 256), b[13])),
     par_p7  |-> ToI8(b[15]),
     par_p8  |-> ToI8(b[16]),
     par_p9  |-> ToI16(Or16(ToI16(b[18] * 256), b[17])),
     par_p10 |-> ToI8(b[19]),
     par_p11 |-> ToI8(b[20])]

\* bmp390_parse_calib_data's assignments to calib_data; t_lin is not among
\* them
bmp390_quantized(f, t_lin0) ==
    [par_t1  |-> DDivPow2(DFromInt(f.par_t1), -8),
     par_t2  |-> DDivPow2(DFromInt(f.par_t2), 30),
     par_t3  |-> DDivPow2(DFromInt(f.par_t3), 48),
     par_p1  |-> DDivPow2(DSub(DFromInt(f.par_p1), DFromInt(16384)), 20),
     par_p2  |-> DDivPow2(DSub(DFromInt(f.par_p2), DFromInt(16384)), 29),
     par_p3  |-> DDivPow2(DFromInt(f.par_p3), 32),
     par_p4  |-> DDivPow2(DFromInt(f.par_p4), 37),
     par_p5  |-> DDivPow2(DFromInt(f.par_p5), -3),
     par_p6  |-> DDivPow2(DFromInt(f.par_p6), 6),
     par_p7  |-> DDivPow2(DFromInt(f.par_p7), 8),
     par_p8  |-> DDivPow2(DFromInt(f.par_p8), 15),
     par_p9  |-> DDivPow2(DFromInt(f.par_p9), 48),
     par_p10 |-> DDivPow2(DFromInt(f.par_p10), 48),
     par_p11 |-> DDivPow2(DFromInt(f.par_p11), 65),
     t_lin   |-> t_lin0]

bmp390_parse_calib_data(reg_data, t_lin0) ==
    bmp390_quantized(bmp390_raw_fields(reg_data), t_lin0)

\* calib_data->t_lin = partial_data2 + (partial_data1 * partial_data1) *
\* calib_data->par_t3, with partial_data2 = partial_data1 * par_t2
bmp390_t_lin(partial_data1, calib_data) ==
    DAdd(DMul(partial_data1, calib_data.par_t2),
         DMul(DMul(partial_data1, partial_data1), calib_data.par_t3))

\* the coefficients after t_lin is stored, and return calib_data->t_lin
bmp390_t_lin_stored(calib_data, t) ==
    [calib |-> [calib_data EXCEPT !.t_lin = t], ret |-> t]

\* bmp390_compensate_temperature: the coefficients after the call, and the
\* result
bmp390_compensate_temperature(uncomp_temp, calib_data) ==
    bmp390_t_lin_stored(calib_data,
        bmp390_t_lin(DSub(DFromInt(uncomp_temp), calib_data.par_t1), calib_data))

bmp390_compensate_pressure(uncomp_press, calib_data) ==
    LET up   == DFromInt(uncomp_press)
        t    == calib_data.t_lin
        partial_out1 ==
            DAdd(DAdd(DAdd(calib_data.par_p5, DMul(calib_data.par_p6, t)),
                      DMul(calib_data.par_p7, pow_bmp3(t, 2))),
                 DMul(calib_data.par_p8, pow_bmp3(t, 3)))
        partial_out2 ==
            DMul(up, DAdd(DAdd(DAdd(calib_data.par_p1, DMul(calib_data.par_p2, t)),
                               DMul(calib_data.par_p3, pow_bmp3(t, 2))),
                          DMul(calib_data.par_p4, pow_bmp3(t, 3))))
        partial_data2 == DAdd(calib_data.par_p9, DMul(calib_data.par_p10, t))
        partial_data3 == DMul(pow_bmp3(up, 2), partial_data2)
        partial_data4 == DAdd(partial_data3,
                              DMul(pow_bmp3(up, 3), calib_data.par_p11))
    IN  DAdd(DAdd(partial_out1, partial_out2), partial_data4)

(* ----------------------------------------------------------------------- *)
(* Reverse calculator (src/unnamed/part_001): data of main                 *)
(* ----------------------------------------------------------------------- *)
\* a second sensor's register block (each device has its own): its
\* temperature curve peaks inside the ADC range, its pressure curve rises
other_calib_bytes ==
    [i \in 0..20 |->
        <<203, 104, 0, 4, 128,
          255, 127, 0, 64, 0, 0,
          0, 1, 64, 0, 0, 0,
          0, 0, 0, 0>>[i + 1]]

CalibBlocks == {raw_calib_bytes, other_calib_bytes}

\* what the never-initialised calib.t_lin may hold when main starts
UninitDoubles == {Zero, DFromInt(-1)}

\* third_party_data[]: temperature_c and pressure_pa of each entry, written
\* in hundredths (the table's literals have at most two decimals)
third_party_centi ==
    << <<2345, 9827395>>, <<2335, 9827363>>, <<2326, 9826898>>,
       <<2500, 10132500>>, <<2200, 10073400>>, <<2450, 10120000>>,
       <<1500, 8400000>>, <<2800, 10250000>> >>

\* third_party_data[k], k counted from 0
third_party_data(k) ==
    [temperature_c |-> Dec(third_party_centi[k + 1][1], 100),
     pressure_pa   |-> Dec(third_party_centi[k + 1][2], 100)]

NUM_TEST_CASES == Len(third_party_centi)

\* values typed at the two prompts of the interactive mode
TempInputs == {DFromInt(n) : n \in {-300, -10, 0, 25, 50, 300}}

PressInputs == {DFromInt(n) : n \in {101325, 68670}}

ADC_MAX == 16777215

\* tolerance of reverse_calc_temperature (0.01) and reverse_calc_pressure (10.0)
tolerance_temp == Dec(1, 100)

tolerance_press == DFromInt(10)

(* ----------------------------------------------------------------------- *)
(* Inverse search (src/unnamed/part_001): the pieces of one loop iteration *)
(* ----------------------------------------------------------------------- *)
\* a search that cuts the interval at a quarter
midpoint_quarter(lo, hi) == lo + (hi - lo) \div 4

\* mid = (low + high) / 2
midpoint(lo, hi) == (lo + hi) \div 2

\* fabs(calc - target) < tolerance
within_tolerance(calc, target, tol) == DLess(fabs(DSub(calc, target)), tol)

\* the comparison turned round
below_target_flipped(calc, target) == DLess(target, calc)

\* calc < target: the search continues in the upper half
below_target(calc, target) == DLess(calc, target)

VARIABLES
    calib,          \* main's bmp390_calib_data
    pc,             \* where main is
    i,              \* index of the for loop over third_party_data
    target_temp,    \* main's target_temp, target_press (interactive mode)
    target_press,
    low, high, mid, \* locals of the running (or last) inverse search
    probes,         \* history: the midpoints the search has evaluated, with
                    \* the forward value found at each
    press_t_lin,    \* history: calib.t_lin as reverse_calc_pressure last read it
    temp_adc,       \* results of the two searches
    press_adc,
    verify_temp,    \* forward values recomputed for the report
    verify_press,
    verify_t_lin,   \* history: calib.t_lin as the report's pressure call read it
    program,        \* which program runs: "reverse", "simulator" or "corrected"
    t_lin,          \* the first simulator's global t_lin
    gsd_pc,         \* per caller: the statement of bmp390_get_sensor_data it
                    \* is at (1, 2), 0 outside the function
    uncomp_data,    \* per caller: its bmp390_uncomp_data
    comp_data,      \* per caller: its bmp390_data
    calls,          \* number of bmp390_get_sensor_data calls made
    order,          \* history, per caller: the compensations its call has run
    t_lin_written,  \* history, per caller: the t_lin its temperature
                    \* compensation stored
    t_lin_read,     \* history, per caller: the t_lin its pressure
                    \* compensation read
    writes,         \* history: number of stores to t_lin so far
    written_at,     \* history, per caller: writes just after its own store
    read_at,        \* history, per caller: writes when its pressure
                    \* compensation read t_lin
    reg_data,       \* the 21 register bytes handed to the decoder
    fields,         \* history: the decoder's temporaries par_t1 .. par_p11
    alt_pressure,   \* the pressure print_sensor_data is given (<<>>: none yet)
    altitude,       \* print_sensor_data's altitude (<<>>: not computed)
    led_state,      \* gpio.c: static int led_state
    gpio_level,     \* level the driver last drove on DESD_LED (-1: not driven)
    acquired,       \* kernel resources the LED module holds
    led_loaded,     \* the LED module is loaded (its init returned 0)
    init_ret,       \* <<value desd_led_init returned>> (<<>>: not called)
    failed_step,    \* history: the step of desd_led_init that failed, or "none"
    over_released,  \* history: resources released while not held
    last_write,     \* history: the last desd_led_write call (<<>>: none)
    last_read,      \* history: the last desd_led_read call (<<>>: none)
    last_command,   \* history: first byte of the last write that began 0 or 1
    lcd_pc,         \* Lcd_deiver.c: position of desd_lcd_probe / LcdInit
    lcd_bus,        \* bytes handed to i2c_master_send so far
    lcd_acked,      \* how many of them the bus reported as sent
    lcd_ret,        \* LcdInit's local ret (<<>>: not assigned)
    LcdInit_ret,    \* <<value LcdInit returned>> (<<>>: not returned)
    probe_ret,      \* <<value desd_lcd_probe returned>> (<<>>: not returned)
    lcd_log,        \* messages desd_lcd_probe printed
    copies_pc,      \* comparison of the two programs' copies: what was called
    copy_calib,     \* the reverse calculator's calib (calib is the simulator's)
    main_ret,       \* what the simulator's function returned (<<>>: nothing)
    copy_ret,       \* what the reverse calculator's copy returned
    writer_pc,      \* gpio.c: where each concurrent desd_led_write call is
    writer_kbuf,    \* each call's kbuf[0]
    writer_arg,     \* the value each call passes to gpio_set_value
    sh_pc,          \* shell: where main is
    pid,            \* shell: main's pid, the child forked last (0: none)
    children,       \* shell: each child's state
    background,     \* shell: the children started with a trailing "&"
    in_handler,     \* shell: sigchld_handler is running, blocked in waitpid(-1)
    sigchld_pending \* shell: a SIGCHLD is pending

search_vars == <<pc, i, target_temp, target_press, low, high, mid, probes,
                 press_t_lin, temp_adc, press_adc, verify_temp, verify_press,
                 verify_t_lin>>

sensor_vars == <<program, t_lin, gsd_pc, uncomp_data, comp_data, calls, order,
                 t_lin_written, t_lin_read, writes, written_at, read_at>>

decode_vars == <<reg_data, fields>>

altitude_vars == <<alt_pressure, altitude>>

led_vars ==
    <<led_state, gpio_level, acquired, led_loaded, init_ret, failed_step,
      over_released, last_write, last_read, last_command>>

lcd_vars ==
    <<lcd_pc, lcd_bus, lcd_acked, lcd_ret, LcdInit_ret, probe_ret, lcd_log>>

copies_vars == <<copies_pc, copy_calib, main_ret, copy_ret>>

\* the variables of the programs modelled further down
writers_vars == <<writer_pc, writer_kbuf, writer_arg>>

shell_vars == <<sh_pc, pid, children, background, in_handler, sigchld_pending>>

remaining_vars == <<copies_vars, writers_vars, shell_vars>>

vars ==
    <<calib, search_vars, sensor_vars, decode_vars, altitude_vars, led_vars,
      lcd_vars, remaining_vars>>

\* what the actions of each program leave alone
outside_reverse ==
    <<sensor_vars, decode_vars, altitude_vars, led_vars, lcd_vars,
      remaining_vars>>

outside_sensor ==
    <<search_vars, decode_vars, altitude_vars, led_vars, lcd_vars,
      remaining_vars>>

outside_decode ==
    <<search_vars, sensor_vars, altitude_vars, led_vars, lcd_vars,
      remaining_vars>>

outside_altitude ==
    <<calib, search_vars, sensor_vars, decode_vars, led_vars, lcd_vars,
      remaining_vars>>

outside_led ==
    <<calib, search_vars, sensor_vars, decode_vars, altitude_vars, lcd_vars,
      remaining_vars>>

outside_lcd ==
    <<calib, search_vars, sensor_vars, decode_vars, altitude_vars, led_vars,
      remaining_vars>>

outside_copies ==
    <<fields, search_vars, sensor_vars, altitude_vars, led_vars, lcd_vars,
      writers_vars, shell_vars>>

outside_writers ==
    <<calib, search_vars, sensor_vars, decode_vars, altitude_vars, lcd_vars,
      copies_vars, shell_vars>>

outside_shell ==
    <<calib, search_vars, sensor_vars, decode_vars, altitude_vars, led_vars,
      lcd_vars, copies_vars, writers_vars>>

\* the variables of a program that is not running
SearchIdle ==
    /\ pc = "off"
    /\ i = 0
    /\ target_temp = Zero
    /\ target_press = Zero
    /\ low = 0
    /\ high = 0
    /\ mid = 0
    /\ probes = <<>>
    /\ press_t_lin = Zero
    /\ temp_adc = 0
    /\ press_adc = 0
    /\ verify_temp = Zero
    /\ verify_press = Zero
    /\ verify_t_lin = Zero

SensorIdle ==
    /\ t_lin = Zero
    /\ gsd_pc = <<>>
    /\ uncomp_data = <<>>
    /\ comp_data = <<>>
    /\ calls = 0
    /\ order = <<>>
    /\ t_lin_written = <<>>
    /\ t_lin_read = <<>>
    /\ writes = 0
    /\ written_at = <<>>
    /\ read_at = <<>>

DecodeIdle ==
    /\ reg_data = <<>>
    /\ fields = <<>>

AltitudeIdle ==
    /\ alt_pressure = <<>>
    /\ altitude = <<>>

\* the LED module before it is loaded: led_state's initialiser is 0
LedIdle ==
    /\ led_state = 0
    /\ gpio_level = -1
    /\ acquired = {}
    /\ led_loaded = FALSE
    /\ init_ret = <<>>
    /\ failed_step = "none"
    /\ over_released = {}
    /\ last_write = <<>>
    /\ last_read = <<>>
    /\ last_command = "none"

LcdIdle ==
    /\ lcd_pc = "unbound"
    /\ lcd_bus = <<>>
    /\ lcd_acked = 0
    /\ lcd_ret = <<>>
    /\ LcdInit_ret = <<>>
    /\ probe_ret = <<>>
    /\ lcd_log = <<>>

\* the programs of the repository that are not running
DriversIdle == LedIdle /\ LcdIdle

CopiesIdle ==
    /\ copies_pc = "off"
    /\ copy_calib = <<>>
    /\ main_ret = <<>>
    /\ copy_ret = <<>>

WritersIdle ==
    /\ writer_pc = <<>>
    /\ writer_kbuf = <<>>
    /\ writer_arg = <<>>

ShellIdle ==
    /\ sh_pc = "off"
    /\ pid = 0
    /\ children = <<>>
    /\ background = {}
    /\ in_handler = FALSE
    /\ sigchld_pending = FALSE

RemainingIdle == CopiesIdle /\ WritersIdle /\ ShellIdle

\* the targets of the entry being processed
TargetTemp ==
    IF i < NUM_TEST_CASES THEN third_party_data(i).temperature_c ELSE target_temp

TargetPress ==
    IF i < NUM_TEST_CASES THEN third_party_data(i).pressure_pa ELSE target_press

Init ==
    /\ \E b \in CalibBlocks, u \in UninitDoubles : calib = decode_calib(b, u)
    /\ pc = "loop"
    /\ i = 0
    /\ target_temp = Zero
    /\ target_press = Zero
    /\ low = 0
    /\ high = 0
    /\ mid = 0
    /\ probes = <<>>
    /\ press_t_lin = Zero
    /\ temp_adc = 0
    /\ press_adc = 0
    /\ verify_temp = Zero
    /\ verify_press = Zero
    /\ verify_t_lin = Zero
    /\ program = "reverse"
    /\ SensorIdle
    /\ DecodeIdle
    /\ AltitudeIdle
    /\ RemainingIdle
    /\ DriversIdle

\* a search that starts from the 23-bit maximum
call_reverse_calc_temperature_half ==
    /\ pc \in {"loop", "custom"}
    /\ pc = "loop" => i < NUM_TEST_CASES
    /\ low' = 0
    /\ high' = ADC_MAX \div 2
    /\ probes' = <<>>
    /\ pc' = "rct"
    /\ UNCHANGED <<press_t_lin, calib, i, target_temp, target_press, mid, temp_adc,
                   press_adc, verify_temp, verify_press, verify_t_lin>>
    /\ UNCHANGED outside_reverse

\* main calls reverse_calc_temperature: for entry i, or for the typed target
call_reverse_calc_temperature ==
    /\ pc \in {"loop", "custom"}
    /\ pc = "loop" => i < NUM_TEST_CASES
    /\ low' = 0
    /\ high' = ADC_MAX
    /\ probes' = <<>>
    /\ pc' = "rct"
    /\ UNCHANGED <<press_t_lin, calib, i, target_temp, target_press, mid, temp_adc,
                   press_adc, verify_temp, verify_press, verify_t_lin>>
    /\ UNCHANGED outside_reverse

\* an iteration that has no early return
temperature_probed_no_return(m, r, target) ==
    /\ mid' = m
    /\ calib' = r.calib
    /\ probes' = Append(probes, [mid |-> m, val |-> r.ret])
    /\ IF below_target(r.ret, target)
       THEN low' = m /\ high' = high
       ELSE low' = low /\ high' = m
    /\ UNCHANGED <<temp_adc, pc>>

\* the rest of an iteration, r being what compensate_temperature(mid, calib)
\* left and returned
temperature_probed(m, r, target) ==
    /\ mid' = m
    /\ calib' = r.calib
    /\ probes' = Append(probes, [mid |-> m, val |-> r.ret])
    /\ IF within_tolerance(r.ret, target, tolerance_temp)
       THEN /\ temp_adc' = m
            /\ pc' = "rct_ret"
            /\ UNCHANGED <<low, high>>
       ELSE /\ IF below_target(r.ret, target)
               THEN low' = m /\ high' = high
               ELSE low' = low /\ high' = m
            /\ UNCHANGED <<temp_adc, pc>>

temperature_probe(m) ==
    temperature_probed(m, compensate_temperature(m, calib), TargetTemp)

\* one iteration of reverse_calc_temperature's while loop
reverse_calc_temperature_step ==
    /\ pc = "rct"
    /\ high - low > 1
    /\ temperature_probe(midpoint(low, high))
    /\ UNCHANGED <<press_t_lin, i, target_temp, target_press, press_adc, verify_temp,
                   verify_press, verify_t_lin>>
    /\ UNCHANGED outside_reverse

\* a search that returns its lower bound when the loop ends
reverse_calc_temperature_exit_low ==
    /\ pc = "rct"
    /\ ~(high - low > 1)
    /\ temp_adc' = low
    /\ pc' = "rct_ret"
    /\ UNCHANGED <<press_t_lin, calib, i, target_temp, target_press, low, high, mid, probes,
                   press_adc, verify_temp, verify_press, verify_t_lin>>
    /\ UNCHANGED outside_reverse

\* the loop of reverse_calc_temperature ends: return mid
reverse_calc_temperature_exit ==
    /\ pc = "rct"
    /\ ~(high - low > 1)
    /\ temp_adc' = mid
    /\ pc' = "rct_ret"
    /\ UNCHANGED <<press_t_lin, calib, i, target_temp, target_press, low, high, mid, probes,
                   press_adc, verify_temp, verify_press, verify_t_lin>>
    /\ UNCHANGED outside_reverse

call_reverse_calc_pressure ==
    /\ pc = "rct_ret"
    /\ low' = 0
    /\ high' = ADC_MAX
    /\ probes' = <<>>
    /\ pc' = "rcp"
    /\ UNCHANGED <<press_t_lin, calib, i, target_temp, target_press, mid, temp_adc,
                   press_adc, verify_temp, verify_press, verify_t_lin>>
    /\ UNCHANGED outside_reverse

pressure_probed(m, calc_press, target) ==
    /\ mid' = m
    /\ probes' = Append(probes, [mid |-> m, val |-> calc_press])
    /\ press_t_lin' = calib.t_lin
    /\ IF within_tolerance(calc_press, target, tolerance_press)
       THEN /\ press_adc' = m
            /\ pc' = "rcp_ret"
            /\ UNCHANGED <<low, high>>
       ELSE /\ IF below_target(calc_press, target)
               THEN low' = m /\ high' = high
               ELSE low' = low /\ high' = m
            /\ UNCHANGED <<press_adc, pc>>

pressure_probe(m) ==
    pressure_probed(m, compensate_pressure(m, calib), TargetPress)

\* a pressure search that leaves its probe's value in calib->t_lin
reverse_calc_pressure_step_writes ==
    /\ pc = "rcp"
    /\ high - low > 1
    /\ pressure_probe(midpoint(low, high))
    /\ calib' = [calib EXCEPT !.t_lin = compensate_pressure(midpoint(low, high), calib)]
    /\ UNCHANGED <<i, target_temp, target_press, temp_adc, verify_temp,
                   verify_press, verify_t_lin>>
    /\ UNCHANGED outside_reverse

\* one iteration of reverse_calc_pressure's while loop
reverse_calc_pressure_step ==
    /\ pc = "rcp"
    /\ high - low > 1
    /\ pressure_probe(midpoint(low, high))
    /\ UNCHANGED <<calib, i, target_temp, target_press, temp_adc, verify_temp,
                   verify_press, verify_t_lin>>
    /\ UNCHANGED outside_reverse

\* a pressure search that returns its upper bound when the loop ends
reverse_calc_pressure_exit_high ==
    /\ pc = "rcp"
    /\ ~(high - low > 1)
    /\ press_adc' = high
    /\ pc' = "rcp_ret"
    /\ UNCHANGED <<press_t_lin, calib, i, target_temp, target_press, low, high, mid, probes,
                   temp_adc, verify_temp, verify_press, verify_t_lin>>
    /\ UNCHANGED outside_reverse

\* the loop of reverse_calc_pressure ends: return mid
reverse_calc_pressure_exit ==
    /\ pc = "rcp"
    /\ ~(high - low > 1)
    /\ press_adc' = mid
    /\ pc' = "rcp_ret"
    /\ UNCHANGED <<press_t_lin, calib, i, target_temp, target_press, low, high, mid, probes,
                   temp_adc, verify_temp, verify_press, verify_t_lin>>
    /\ UNCHANGED outside_reverse

\* the forward verification: print_reverse_calc_results for an entry of the
\* table, the two calls before the RESULTS block for the typed targets
verified(r) ==
    /\ calib' = r.calib
    /\ verify_temp' = r.ret
    /\ verify_t_lin' = r.calib.t_lin
    /\ verify_press' = compensate_pressure(press_adc, r.calib)

print_reverse_calc_results ==
    /\ pc = "rcp_ret"
    /\ verified(compensate_temperature(temp_adc, calib))
    /\ IF i < NUM_TEST_CASES
       THEN i' = i + 1 /\ pc' = "loop"
       ELSE i' = i /\ pc' = "done"
    /\ UNCHANGED <<press_t_lin, target_temp, target_press, low, high, mid, probes,
                   temp_adc, press_adc>>
    /\ UNCHANGED outside_reverse

\* the interactive mode's two scanf calls; a line that is no number ends main
scan_targets ==
    /\ pc = "loop"
    /\ i = NUM_TEST_CASES
    /\ \/ \E t \in TempInputs, p \in PressInputs :
             /\ target_temp' = t
             /\ target_press' = p
             /\ pc' = "custom"
       \/ /\ pc' = "invalid"
          /\ UNCHANGED <<target_temp, target_press>>
    /\ UNCHANGED <<press_t_lin, calib, i, low, high, mid, probes, temp_adc, press_adc,
                   verify_temp, verify_press, verify_t_lin>>
    /\ UNCHANGED outside_reverse

Next ==
    \/ call_reverse_calc_temperature
    \/ reverse_calc_temperature_step
    \/ reverse_calc_temperature_exit
    \/ call_reverse_calc_pressure
    \/ reverse_calc_pressure_step
    \/ reverse_calc_pressure_exit
    \/ print_reverse_calc_results
    \/ scan_targets

Spec == Init /\ [][Next]_vars

(* ----------------------------------------------------------------------- *)
(* Properties of the reverse calculator                                    *)
(* ----------------------------------------------------------------------- *)
\* |a - b| as an exact value, and v < num/den for an exact v >= 0: distances
\* are measured exactly, not in rounded arithmetic
ExactAbsDiff(a, b) == fabs(ExactSum(a, DNeg(b)))

BelowRatio(v, num, den) ==
    IF v.exp >= 0
    THEN NatCmp(ShiftLeft(NatMul(v.man, NatOfInt(den)), v.exp), NatOfInt(num)) < 0
    ELSE NatCmp(NatMul(v.man, NatOfInt(den)), ShiftLeft(NatOfInt(num), -v.exp)) < 0

WithinExact(a, b, num, den) == BelowRatio(ExactAbsDiff(a, b), num, den)

DocumentedCalib == decode_calib(raw_calib_bytes, Zero)

\* the coefficients are those of the documented 21-byte block
Documented == [calib EXCEPT !.t_lin = Zero] = DocumentedCalib

InTempSearch == pc \in {"rct", "rct_ret"}

InPressSearch == pc \in {"rcp", "rcp_ret"}

\* the forward temperature of the raw value the temperature search returned
ForwardOfTempAdc == compensate_temperature(temp_adc, calib).ret

RoundTripTargets == {DFromInt(n) : n \in {-10, 0, 25, 50}}

\* C1: with the documented calibration, for each target in {-10, 0, 25, 50}
\* degrees Celsius the raw value reverse_calc_temperature returns has a
\* forward temperature less than 0.01 degrees from the target.
C1_InverseTemperatureRoundTrip ==
    (Documented /\ pc = "rct_ret" /\ i = NUM_TEST_CASES
                /\ target_temp \in RoundTripTargets)
        => WithinExact(ForwardOfTempAdc, target_temp, 1, 100)

C1_Witness ==
    /\ Documented /\ pc = "rct_ret" /\ i = NUM_TEST_CASES
    /\ target_temp = DFromInt(-10)
    /\ temp_adc = probes[Len(probes)].mid

\* C2: with the documented calibration, for each entry of third_party_data
\* the raw value reverse_calc_pressure returns (after the entry's temperature
\* search) has a forward pressure, at the same t_lin, within 10 Pa of the
\* entry's pressure.
C2_InversePressureRoundTrip ==
    (Documented /\ pc = "rcp_ret" /\ i < NUM_TEST_CASES)
        => WithinExact(compensate_pressure(press_adc, calib), TargetPress, 10, 1)

\* C3: with the documented calibration and t_lin fixed, a larger raw pressure
\* value compensates to a strictly larger pressure (over the values a
\* pressure search evaluates).
C3_PressureMonotonic ==
    (Documented /\ InPressSearch)
        => \A j, k \in DOMAIN probes :
              probes[j].mid < probes[k].mid => DLess(probes[j].val, probes[k].val)

LastProbe == probes[Len(probes)]

\* C4: with the documented calibration, a larger raw temperature value in
\* [0, 16777215] compensates to a strictly larger temperature: over the values
\* a temperature search evaluates, their neighbours and the two ends.
C4_TemperatureMonotonic ==
    (Documented /\ InTempSearch /\ probes # <<>>)
        => /\ \A j, k \in DOMAIN probes :
                 probes[j].mid < probes[k].mid => DLess(probes[j].val, probes[k].val)
           /\ DLess(compensate_temperature(0, calib).ret, LastProbe.val)
           /\ DLess(compensate_temperature(LastProbe.mid - 1, calib).ret, LastProbe.val)
           /\ DLess(LastProbe.val, compensate_temperature(LastProbe.mid + 1, calib).ret)
           /\ DLess(LastProbe.val, compensate_temperature(ADC_MAX, calib).ret)

\* two probed raw values next to each other, and probes at both ends
C4_Witness ==
    /\ Documented /\ InTempSearch
    /\ \E j, k \in DOMAIN probes : probes[k].mid = probes[j].mid + 1
    /\ LastProbe.mid = ADC_MAX - 1

NarrowsOrReturns ==
    pc \in {"rct", "rcp"} =>
        /\ pc' = pc => (high' - low' < high - low /\ high' - low' >= 1)
        /\ Len(probes') <= 24

\* C5: every iteration of either search strictly narrows high - low (or
\* returns), and no search makes more than 24 forward evaluations, whatever
\* the target and the coefficients: so both searches terminate.
C5_BisectionTerminates == [][NarrowsOrReturns]_vars

\* a search that took all 24 evaluations, on the block whose curve is not monotonic
C5_Witness ==
    /\ ~Documented
    /\ pc = "rct_ret"
    /\ Len(probes) = 24
    /\ \E j, k \in DOMAIN probes :
          probes[j].mid < probes[k].mid /\ DLess(probes[k].val, probes[j].val)

\* C6: a search returns the first midpoint it evaluates whose forward value is
\* within tolerance (0.01 degrees, 10 Pa) and evaluates nothing after it; a
\* search that returns while high - low > 1 returns such a midpoint.
C6_EarlyReturn ==
    /\ InTempSearch =>
          /\ \A k \in DOMAIN probes :
                WithinExact(probes[k].val, TargetTemp, 1, 100)
                   => k = Len(probes) /\ pc = "rct_ret" /\ temp_adc = probes[k].mid
          /\ (pc = "rct_ret" /\ high - low > 1)
                => WithinExact(ForwardOfTempAdc, TargetTemp, 1, 100)
    /\ InPressSearch =>
          /\ \A k \in DOMAIN probes :
                WithinExact(probes[k].val, TargetPress, 10, 1)
                   => k = Len(probes) /\ pc = "rcp_ret" /\ press_adc = probes[k].mid
          /\ (pc = "rcp_ret" /\ high - low > 1)
                => WithinExact(compensate_pressure(press_adc, calib), TargetPress, 10, 1)

\* an early return of the temperature search after several evaluations
C6_Witness ==
    /\ pc = "rct_ret" /\ high - low > 1 /\ Len(probes) > 3 /\ Documented
    /\ WithinExact(LastProbe.val, TargetTemp, 1, 100)

\* C7: a search whose interval narrows to width 1 with no midpoint within
\* tolerance returns the last midpoint it computed, which is one of its final
\* bounds and a raw value in [0, 16777215] like any other result: the value
\* returned may be outside tolerance.
C7_NonConvergence ==
    /\ (pc = "rct_ret" /\ ~(high - low > 1)) =>
          /\ high - low = 1
          /\ temp_adc = LastProbe.mid /\ temp_adc = mid /\ mid \in {low, high}
          /\ temp_adc \in 0..ADC_MAX
    /\ (pc = "rcp_ret" /\ ~(high - low > 1)) =>
          /\ high - low = 1
          /\ press_adc = LastProbe.mid /\ press_adc = mid /\ mid \in {low, high}
          /\ press_adc \in 0..ADC_MAX

\* a temperature search that ended outside tolerance
C7_Witness ==
    /\ pc = "rct_ret" /\ high - low = 1
    /\ ~WithinExact(ForwardOfTempAdc, TargetTemp, 1, 100)

\* the report of the last entry is in the variables
Printed == pc = "done" \/ (i > 0 /\ pc \in {"loop", "custom", "invalid", "rct"})

\* C10: while reverse_calc_pressure runs for an entry, calib.t_lin is the
\* forward temperature of the raw value reverse_calc_temperature returned for
\* that entry, converged or not, and the report evaluates the pressure with
\* that same t_lin.
C10_PairedLinearization ==
    /\ InPressSearch => calib.t_lin = ForwardOfTempAdc
    /\ (InPressSearch /\ probes # <<>>) => press_t_lin = ForwardOfTempAdc
    /\ Printed => (verify_t_lin = press_t_lin /\ verify_t_lin = ForwardOfTempAdc)

\* a pressure search run after a temperature search that did not converge,
\* and its report
C10_Witness ==
    /\ pc = "done"
    /\ ~WithinExact(ForwardOfTempAdc, TargetTemp, 1, 100)
    /\ verify_t_lin = press_t_lin

(* ----------------------------------------------------------------------- *)
(* The two simulators (src/unnamed/part_000): bmp390_get_sensor_data       *)
(* ----------------------------------------------------------------------- *)
\* at most this many calls of bmp390_get_sensor_data are followed
MaxCalls == 2

\* raw values of the two main functions' examples, and typed ones
TemperatureAdc == {8388608, 8450000, 8500000, 1048575}

PressureAdc == {8388608, 8200000, 1048575}

\* the compensation the k-th statement of bmp390_get_sensor_data calls, with
\* the two statements exchanged
get_sensor_data_statement_swapped(k) == IF k = 1 THEN "pressure" ELSE "temperature"

\* the compensation the k-th statement of bmp390_get_sensor_data calls
get_sensor_data_statement(k) == IF k = 1 THEN "temperature" ELSE "pressure"

\* the state in which callers th of one program are about to start
SensorInit(threads) ==
    /\ \/ /\ program = "simulator"
          /\ calib = simulator_calib
       \/ /\ program = "corrected"
          /\ \E u \in UninitDoubles : calib = bmp390_parse_calib_data(raw_calib_data, u)
    /\ t_lin = Zero
    /\ gsd_pc = [th \in threads |-> 0]
    /\ uncomp_data = [th \in threads |-> [pressure |-> 0, temperature |-> 0]]
    /\ comp_data = [th \in threads |-> [temperature |-> Zero, pressure |-> Zero]]
    /\ calls = 0
    /\ order = [th \in threads |-> <<>>]
    /\ t_lin_written = [th \in threads |-> Zero]
    /\ t_lin_read = [th \in threads |-> Zero]
    /\ writes = 0
    /\ written_at = [th \in threads |-> 0]
    /\ read_at = [th \in threads |-> 0]
    /\ SearchIdle
    /\ DecodeIdle
    /\ AltitudeIdle
    /\ RemainingIdle
    /\ DriversIdle

\* main alone
InitSensor == SensorInit({1})

\* two callers sharing the coefficients (and the global t_lin)
InitConcurrent == SensorInit({1, 2})

\* the linearization value the pressure compensation of the running program
\* reads
shared_t_lin == IF program = "simulator" THEN t_lin ELSE calib.t_lin

\* the caller sets uncomp_data and calls bmp390_get_sensor_data
call_get_sensor_data(th) ==
    /\ gsd_pc[th] = 0
    /\ calls < MaxCalls
    /\ \E t \in TemperatureAdc, p \in PressureAdc :
          uncomp_data' = [uncomp_data EXCEPT ![th] = [pressure |-> p, temperature |-> t]]
    /\ gsd_pc' = [gsd_pc EXCEPT ![th] = 1]
    /\ calls' = calls + 1
    /\ order' = [order EXCEPT ![th] = <<>>]
    /\ UNCHANGED <<calib, outside_sensor, program, t_lin, comp_data, t_lin_written,
                   t_lin_read, writes, written_at, read_at>>

\* the statement after the k-th: 0 is the return
statement_after(k) == IF k = 1 THEN 2 ELSE 0

\* comp_data->temperature = bmp390_compensate_temperature(...): lin is the
\* value the call stored as t_lin, ret the value it returned
temperature_compensated(th, lin, ret) ==
    /\ comp_data' = [comp_data EXCEPT ![th].temperature = ret]
    /\ gsd_pc' = [gsd_pc EXCEPT ![th] = statement_after(@)]
    /\ order' = [order EXCEPT ![th] = Append(@, "temperature")]
    /\ t_lin_written' = [t_lin_written EXCEPT ![th] = lin]
    /\ writes' = writes + 1
    /\ written_at' = [written_at EXCEPT ![th] = writes + 1]
    /\ UNCHANGED <<outside_sensor, program, uncomp_data, calls, t_lin_read, read_at>>

simulator_temperature(th, r) ==
    /\ t_lin' = r.t_lin
    /\ calib' = calib
    /\ temperature_compensated(th, r.t_lin, r.ret)

corrected_temperature(th, r) ==
    /\ calib' = r.calib
    /\ t_lin' = t_lin
    /\ temperature_compensated(th, r.calib.t_lin, r.ret)

get_sensor_data_temperature(th) ==
    /\ gsd_pc[th] \in {1, 2}
    /\ get_sensor_data_statement(gsd_pc[th]) = "temperature"
    /\ IF program = "simulator"
       THEN simulator_temperature(th,
                simulator_compensate_temperature(uncomp_data[th].temperature, calib))
       ELSE corrected_temperature(th,
                bmp390_compensate_temperature(uncomp_data[th].temperature, calib))

\* comp_data->pressure = bmp390_compensate_pressure(...)
get_sensor_data_pressure(th) ==
    /\ gsd_pc[th] \in {1, 2}
    /\ get_sensor_data_statement(gsd_pc[th]) = "pressure"
    /\ comp_data' = [comp_data EXCEPT ![th].pressure =
            IF program = "simulator"
            THEN simulator_compensate_pressure(uncomp_data[th].pressure, calib, t_lin)
            ELSE bmp390_compensate_pressure(uncomp_data[th].pressure, calib)]
    /\ gsd_pc' = [gsd_pc EXCEPT ![th] = statement_after(@)]
    /\ order' = [order EXCEPT ![th] = Append(@, "pressure")]
    /\ t_lin_read' = [t_lin_read EXCEPT ![th] = shared_t_lin]
    /\ read_at' = [read_at EXCEPT ![th] = writes]
    /\ UNCHANGED <<calib, outside_sensor, program, t_lin, uncomp_data, calls,
                   t_lin_written, writes, written_at>>

NextSensor ==
    \E th \in DOMAIN gsd_pc :
        \/ call_get_sensor_data(th)
        \/ get_sensor_data_temperature(th)
        \/ get_sensor_data_pressure(th)

SpecSensor == InitSensor /\ [][NextSensor]_vars

SpecConcurrent == InitConcurrent /\ [][NextSensor]_vars

\* the linearization value of a raw temperature, computed apart from any state
LinearizationOf(uncomp_temp) ==
    IF program = "simulator"
    THEN simulator_compensate_temperature(uncomp_temp, calib).t_lin
    ELSE bmp390_compensate_temperature(uncomp_temp, calib).ret

\* the pressure of a raw pressure at a given linearization value
PressureAt(uncomp_press, lin) ==
    IF program = "simulator"
    THEN simulator_compensate_pressure(uncomp_press, calib, lin)
    ELSE bmp390_compensate_pressure(uncomp_press, [calib EXCEPT !.t_lin = lin])

\* caller th has returned from a call of bmp390_get_sensor_data
Returned(th) == gsd_pc[th] = 0 /\ Len(order[th]) = 2

\* C8: in every call of bmp390_get_sensor_data the temperature compensation
\* of the sample runs before its pressure compensation, and the t_lin that
\* pressure compensation reads is the one this temperature compensation
\* stored, with no store in between, whatever calls came before.
C8_PairedOrdering ==
    \A th \in DOMAIN gsd_pc :
        /\ gsd_pc[th] = 2 => order[th] = <<"temperature">>
        /\ Returned(th) =>
              /\ order[th] = <<"temperature", "pressure">>
              /\ read_at[th] = written_at[th]
              /\ t_lin_read[th] = t_lin_written[th]
              /\ t_lin_read[th] = LinearizationOf(uncomp_data[th].temperature)
              /\ comp_data[th].pressure =
                    PressureAt(uncomp_data[th].pressure,
                               LinearizationOf(uncomp_data[th].temperature))

\* a second call has returned, for a sample other than the one before it
C8_Witness ==
    /\ DOMAIN gsd_pc = {1}
    /\ Returned(1)
    /\ calls = 2
    /\ written_at[1] = 2 /\ uncomp_data[1].pressure = 8200000
    /\ program = "corrected"
    /\ uncomp_data[1].temperature = 1048575

\* C9: when two sample pairs are compensated concurrently on shared
\* coefficients (or the shared global t_lin), each pair's pressure is computed
\* from the linearization value of its own temperature sample, under every
\* interleaving.
C9_SessionIsolation ==
    \A th \in DOMAIN gsd_pc :
        Returned(th) =>
            /\ t_lin_read[th] = LinearizationOf(uncomp_data[th].temperature)
            /\ comp_data[th].pressure =
                  PressureAt(uncomp_data[th].pressure,
                             LinearizationOf(uncomp_data[th].temperature))

(* ----------------------------------------------------------------------- *)
(* Properties of the forward compensation and of the decoder               *)
(* ----------------------------------------------------------------------- *)
\* the exact product of two doubles, not rounded
ExactMul(x, y) ==
    [sgn |-> x.sgn * y.sgn, man |-> NatMul(x.man, y.man), exp |-> x.exp + y.exp]

\* d * par_t2 + d * d * par_t3 for d = x - par_t1, in exact arithmetic
ExactPolynomial(x, c) ==
    ExactSum(ExactMul(ExactSum(DFromInt(x), DNeg(c.par_t1)), c.par_t2),
             ExactMul(ExactMul(ExactSum(DFromInt(x), DNeg(c.par_t1)),
                               ExactSum(DFromInt(x), DNeg(c.par_t1))), c.par_t3))

\* C11: compensate_temperature computes d = x - par_t1 and the second-degree
\* value d * par_t2 + d * d * par_t3 (in double arithmetic, so within 1e-9 of
\* the exact value), stores it in t_lin and returns the stored value: checked
\* after every probe of the temperature search.
C11_TemperatureResult ==
    (pc \in {"rct", "rct_ret"} /\ probes # <<>>) =>
        /\ calib.t_lin = LastProbe.val
        /\ LastProbe.val =
              DAdd(DMul(DSub(DFromInt(LastProbe.mid), calib.par_t1), calib.par_t2),
                   DMul(DMul(DSub(DFromInt(LastProbe.mid), calib.par_t1),
                             DSub(DFromInt(LastProbe.mid), calib.par_t1)),
                        calib.par_t3))
        /\ BelowRatio(ExactAbsDiff(LastProbe.val,
                                   ExactPolynomial(LastProbe.mid, calib)),
                      1, 1000000000)

\* a probe where the second-order term is far above the bound
C11_Witness ==
    /\ pc = "rct" /\ Len(probes) = 3 /\ Documented
    /\ ~BelowRatio(ExactAbsDiff(LastProbe.val,
                                DMul(DSub(DFromInt(LastProbe.mid), calib.par_t1),
                                     calib.par_t2)), 1, 1000)

\* the fourteen decoded coefficients of a coefficients instance
Coefficients(c) == [c EXCEPT !.t_lin = Zero]

\* a step in which compensate_temperature runs: a probe of
\* reverse_calc_temperature, or the verification of the report
TemperatureCompensationStep == (pc = "rct" /\ high - low > 1) \/ pc = "rcp_ret"

\* a step of reverse_calc_pressure, from its call to its return
PressureSearchStep == pc \in {"rct_ret", "rcp"}

FrameStep ==
    /\ Coefficients(calib') = Coefficients(calib)
    /\ calib'.t_lin # calib.t_lin => TemperatureCompensationStep
    /\ PressureSearchStep => calib' = calib

\* C12: over any sequence of temperature compensations, pressure
\* compensations and inverse searches on one coefficients instance the
\* fourteen coefficients never change, t_lin changes only in a temperature
\* compensation, and reverse_calc_pressure with its compensate_pressure calls
\* leaves the whole instance unchanged.
C12_CompensationFrame == [][FrameStep]_vars

\* a whole pressure search has run on coefficients whose t_lin a temperature
\* compensation had set
C12_Witness ==
    /\ pc = "rcp_ret" /\ Len(probes) = 24
    /\ Documented
    /\ calib.t_lin \notin UninitDoubles
    /\ press_t_lin = calib.t_lin

(* ----------------------------------------------------------------------- *)
(* The decoder on its own (src/unnamed/part_000): bmp390_parse_calib_data  *)
(* ----------------------------------------------------------------------- *)
\* byte values at the edges of the signed and unsigned ranges
ByteSamples == {0, 1, 127, 128, 255}

\* register blocks: the documented one, blocks of one repeated byte, and a
\* block whose 21 bytes all differ
BaseBlocks ==
    {raw_calib_data, [k \in 0..20 |-> 7 + 12 * k]}
        \cup {[k \in 0..20 |-> v] : v \in {0, 127, 128, 255}}

\* the same with any one byte replaced
RegisterBlocks ==
    BaseBlocks \cup {[b EXCEPT ![k] = v] : b \in BaseBlocks, k \in 0..20, v \in ByteSamples}

\* main's calib before bmp390_parse_calib_data: nothing initialised
uninitialised_calib(u) ==
    [par_t1 |-> u, par_t2 |-> u, par_t3 |-> u, par_p1 |-> u, par_p2 |-> u,
     par_p3 |-> u, par_p4 |-> u, par_p5 |-> u, par_p6 |-> u, par_p7 |-> u,
     par_p8 |-> u, par_p9 |-> u, par_p10 |-> u, par_p11 |-> u, t_lin |-> u]

InitDecode ==
    /\ program = "corrected"
    /\ \E u \in UninitDoubles : calib = uninitialised_calib(u)
    /\ DecodeIdle
    /\ SearchIdle
    /\ SensorIdle
    /\ AltitudeIdle
    /\ RemainingIdle
    /\ DriversIdle

\* the 21 bytes read from the sensor's registers 0x31 .. 0x45
read_calib_registers ==
    /\ reg_data = <<>>
    /\ reg_data' \in RegisterBlocks
    /\ UNCHANGED <<calib, fields, outside_decode>>

\* bmp390_parse_calib_data(raw_calib_data, &calib)
parse_calib_data ==
    /\ reg_data # <<>>
    /\ fields = <<>>
    /\ fields' = bmp390_raw_fields(reg_data)
    /\ calib' = bmp390_parse_calib_data(reg_data, calib.t_lin)
    /\ UNCHANGED <<reg_data, outside_decode>>

NextDecode == read_calib_registers \/ parse_calib_data

SpecDecode == InitDecode /\ [][NextDecode]_vars

\* high byte * 256 + low byte, the low byte at offset k
Unsigned16At(b, k) == b[k + 1] * 256 + b[k]

\* the two's-complement reading of a 16-bit and of an 8-bit pattern
Signed16(u) == IF u >= 32768 THEN u - 65536 ELSE u

Signed8(u) == IF u >= 128 THEN u - 256 ELSE u

\* C13: every 16-bit field is high byte * 256 + low byte, low byte first;
\* par_t1, par_t2, par_p5, par_p6 are read unsigned (0..65535), par_p1, par_p2,
\* par_p9 as two's-complement 16-bit (-32768..32767), the seven others as
\* two's-complement 8-bit (-128..127); the coefficients are quantized from
\* these values.
C13_FieldExtraction ==
    fields # <<>> =>
        /\ fields.par_t1 = Unsigned16At(reg_data, 0)
        /\ fields.par_t2 = Unsigned16At(reg_data, 2)
        /\ fields.par_p5 = Unsigned16At(reg_data, 11)
        /\ fields.par_p6 = Unsigned16At(reg_data, 13)
        /\ \A f \in {"par_t1", "par_t2", "par_p5", "par_p6"} : fields[f] \in 0..65535
        /\ fields.par_p1 = Signed16(Unsigned16At(reg_data, 5))
        /\ fields.par_p2 = Signed16(Unsigned16At(reg_data, 7))
        /\ fields.par_p9 = Signed16(Unsigned16At(reg_data, 17))
        /\ \A f \in {"par_p1", "par_p2", "par_p9"} : fields[f] \in -32768..32767
        /\ fields.par_t3 = Signed8(reg_data[4])
        /\ fields.par_p3 = Signed8(reg_data[9])
        /\ fields.par_p4 = Signed8(reg_data[10])
        /\ fields.par_p7 = Signed8(reg_data[15])
        /\ fields.par_p8 = Signed8(reg_data[16])
        /\ fields.par_p10 = Signed8(reg_data[19])
        /\ fields.par_p11 = Signed8(reg_data[20])
        /\ \A f \in {"par_t3", "par_p3", "par_p4", "par_p7", "par_p8", "par_p10",
                     "par_p11"} : fields[f] \in -128..127
        /\ calib = quantize_fields(fields, calib.t_lin)

\* a signed 16-bit field at its most negative value, an unsigned one above
\* 32767, a signed 8-bit one at its most negative value
C13_Witness ==
    /\ fields # <<>>
    /\ fields.par_p1 = -32768
    /\ fields.par_t1 = 32896
    /\ fields.par_t3 = -128
    /\ reg_data[5] = 0 /\ reg_data[6] = 128

\* the layout: name, byte offset, width in bytes, signedness
FieldLayout(first_of_p9) ==
    << <<"par_t1", 0, 2, FALSE>>, <<"par_t2", 2, 2, FALSE>>, <<"par_t3", 4, 1, TRUE>>,
       <<"par_p1", 5, 2, TRUE>>, <<"par_p2", 7, 2, TRUE>>, <<"par_p3", 9, 1, TRUE>>,
       <<"par_p4", 10, 1, TRUE>>, <<"par_p5", 11, 2, FALSE>>, <<"par_p6", 13, 2, FALSE>>,
       <<"par_p7", 15, 1, TRUE>>, <<"par_p8", 16, 1, TRUE>>,
       <<"par_p9", first_of_p9, 2, TRUE>>,
       <<"par_p10", 19, 1, TRUE>>, <<"par_p11", 20, 1, TRUE>> >>

\* the value a layout entry d denotes in block b
Extract(b, d) ==
    IF d[3] = 2
    THEN IF d[4] THEN Signed16(Unsigned16At(b, d[2])) ELSE Unsigned16At(b, d[2])
    ELSE Signed8(b[d[2]])

DecodedAs(layout) ==
    \A n \in DOMAIN layout : fields[layout[n][1]] = Extract(reg_data, layout[n])

\* C14 as stated: the fields sit at offsets 0, 2, 4, 5, 7, 9, 10, 11, 13, 15,
\* 16, 18, 19, 20, the twelfth (par_p9, signed 16-bit) starting at offset 18.
C14_OffsetsAsStated == fields # <<>> => DecodedAs(FieldLayout(18))

\* C14 amended: the fields sit at offsets 0, 2, 4, 5, 7, 9, 10, 11, 13, 15, 16,
\* 17, 19, 20: par_p9 is the two-byte field starting at offset 17, par_p10 and
\* par_p11 the single bytes at 19 and 20, and the fourteen fields cover the 21
\* bytes with no gap and no overlap.
C14_FieldOffsets ==
    /\ fields # <<>> => DecodedAs(FieldLayout(17))
    /\ \A k \in 0..20 :
          Cardinality({n \in 1..14 :
              k \in FieldLayout(17)[n][2]
                      .. (FieldLayout(17)[n][2] + FieldLayout(17)[n][3] - 1)}) = 1

\* the block whose bytes all differ has been decoded
C14_Witness ==
    /\ fields # <<>>
    /\ \A j, k \in 0..20 : j # k => reg_data[j] # reg_data[k]
    /\ fields.par_p9 # Signed16(Unsigned16At(reg_data, 18))
    /\ fields.par_p9 = Signed16(Unsigned16At(reg_data, 17))

\* C15: the documented bytes CB 68 68 66 03 E9 BE 71 D5 07 05 FF 9F FF 9F 0F
\* FE 00 E0 E0 EB decode to par_t1 = 26827, par_t2 = 26216, par_t3 = 3,
\* par_p1 = -16663, par_p2 = -10895, par_p3 = 7, par_p4 = 5, par_p5 = 40959,
\* par_p6 = 40959, par_p7 = 15, par_p8 = -2, par_p9 = -8192, par_p10 = -32,
\* par_p11 = -21, and the quantized par_t1 is 26827 / 0.00390625 = 6867712.
C15_KnownVector ==
    (fields # <<>> /\ reg_data = raw_calib_data) =>
        /\ fields = [par_t1 |-> 26827, par_t2 |-> 26216, par_t3 |-> 3,
                     par_p1 |-> -16663, par_p2 |-> -10895, par_p3 |-> 7,
                     par_p4 |-> 5, par_p5 |-> 40959, par_p6 |-> 40959,
                     par_p7 |-> 15, par_p8 |-> -2, par_p9 |-> -8192,
                     par_p10 |-> -32, par_p11 |-> -21]
        /\ calib.par_t1 = DFromInt(6867712)

C15_Witness ==
    /\ fields # <<>>
    /\ reg_data = raw_calib_data
    /\ reg_data[0] = 203 /\ reg_data[20] = 235
    /\ calib.par_t1 = DFromInt(6867712)
    /\ calib.t_lin \in UninitDoubles

(* ----------------------------------------------------------------------- *)
(* Properties of the simulators' results                                   *)
(* ----------------------------------------------------------------------- *)
\* C16: with the documented calibration the corrected simulator compensates
\* raw temperature = raw pressure = 8388608 (its Test Case 1) to about 25
\* degrees Celsius and about 101300 Pa: here within 5 degrees and 5000 Pa.
C16_MidScale ==
    (/\ program = "corrected"
     /\ Returned(1)
     /\ uncomp_data[1] = [pressure |-> 8388608, temperature |-> 8388608])
        => /\ WithinExact(comp_data[1].temperature, DFromInt(25), 5, 1)
           /\ WithinExact(comp_data[1].pressure, DFromInt(101300), 5000, 1)

(* ----------------------------------------------------------------------- *)
(* Altitude (src/unnamed/part_000): calculate_altitude, print_sensor_data  *)
(* ----------------------------------------------------------------------- *)
\* x / (d1 * d2) for integers 0 < d1, d2 < Radix, correctly rounded: the
\* quotient of the two successive integer divisions is the quotient by d1 * d2
SecondQuotient(q1, q2) == [q |-> q2.q, rem |-> q1.rem + q2.rem]

QuotientByTwo(q1, d2) == SecondQuotient(q1, NatDivLimb(q1.q, d2))

DDivProduct(x, d1, d2) ==
    IF x.man = <<>> THEN x
    ELSE RoundNearestEven(x.sgn,
             QuotSticky(QuotientByTwo(NatDivLimb(ShiftLeft(x.man, 70), d1), d2)),
             x.exp - 71)

\* pressure / sea_level_pressure, sea_level_pressure = 101325.0 = 25 * 4053
over_sea_level_pressure(pressure) == DDivProduct(pressure, 25, 4053)

\* results that are no modelled double: NaN, and a finite number whose digits
\* the model does not compute
NaN == [class |-> "nan"]

FiniteOf(x) == [class |-> "finite", of |-> x]

\* pow(x, 0.1903) of the C library: +0 for a zero base, 1 for base 1, NaN for
\* a negative base (the exponent is no integer), else a positive finite
\* number
pow_0_1903(x) ==
    IF x.man = <<>> THEN Zero
    ELSE IF x = DFromInt(1) THEN DFromInt(1)
    ELSE IF IsNegative(x) THEN NaN
    ELSE FiniteOf(x)

\* 44330.0 * (1.0 - p) for a result p of pow
altitude_from(p) ==
    IF p = NaN THEN NaN
    ELSE IF "class" \in DOMAIN p THEN FiniteOf(p.of)
    ELSE DMul(DFromInt(44330), DSub(DFromInt(1), p))

\* a formula with the subtraction turned round
calculate_altitude_reversed(pressure) ==
    IF pow_0_1903(over_sea_level_pressure(pressure)) = Zero
    THEN DMul(DFromInt(44330), DSub(Zero, DFromInt(1)))
    ELSE altitude_from(pow_0_1903(over_sea_level_pressure(pressure)))

calculate_altitude(pressure) ==
    altitude_from(pow_0_1903(over_sea_level_pressure(pressure)))

\* pressures given to print_sensor_data: every thousand Pa from -5000 to
\* 120000, the sea-level reference, and 1 Pa
AltitudePressures ==
    {DFromInt(1000 * k) : k \in -5..120} \cup {DFromInt(101325), DFromInt(1)}

InitAltitude ==
    /\ program \in {"simulator", "corrected"}
    /\ calib = <<>>
    /\ AltitudeIdle
    /\ RemainingIdle
    /\ DriversIdle
    /\ SearchIdle
    /\ SensorIdle
    /\ DecodeIdle

\* a compensated reading is handed to print_sensor_data
sensor_data_ready ==
    /\ alt_pressure = <<>>
    /\ alt_pressure' \in AltitudePressures
    /\ UNCHANGED <<altitude, outside_altitude>>

\* print_sensor_data: altitude = calculate_altitude(comp_data->pressure)
print_sensor_data ==
    /\ alt_pressure # <<>>
    /\ altitude = <<>>
    /\ altitude' = calculate_altitude(alt_pressure)
    /\ UNCHANGED <<alt_pressure, outside_altitude>>

NextAltitude == sensor_data_ready \/ print_sensor_data

SpecAltitude == InitAltitude /\ [][NextAltitude]_vars

\* a result that is a finite number
IsFinite(v) == v # NaN

\* C17 as stated: calculate_altitude(0) is not a finite altitude (NaN or
\* infinity).
C17_ZeroPressureNonFinite ==
    (altitude # <<>> /\ alt_pressure = Zero) => ~IsFinite(altitude)

\* C17 amended: calculate_altitude(0) is the finite value 44330 (pow(0, 0.1903)
\* is 0), the sea-level reference gives 0, and among finite pressures exactly
\* the negative ones give a non-finite result (NaN).
C17_ZeroPressureAltitude ==
    altitude # <<>> =>
        /\ alt_pressure = Zero => altitude = DFromInt(44330)
        /\ alt_pressure = DFromInt(101325) => altitude = Zero
        /\ IsFinite(altitude) <=> ~IsNegative(alt_pressure)

C17_Witness ==
    /\ alt_pressure = Zero
    /\ altitude = DFromInt(44330)
    /\ IsFinite(altitude)

(* ----------------------------------------------------------------------- *)
(* LED character device (src/gpio.c)                                       *)
(* ----------------------------------------------------------------------- *)
\* the steps of desd_led_init in the order it takes them
InitSteps ==
    <<"alloc_chrdev_region", "class_create", "device_create", "cdev_add",
      "gpio_is_valid", "gpio_request", "gpio_direction_output">>

\* what a step that succeeded leaves the module holding
ResourceOf(step) ==
    CASE step = "alloc_chrdev_region" -> {"devno"}
      [] step = "class_create" -> {"class"}
      [] step = "device_create" -> {"device"}
      [] step = "cdev_add" -> {"cdev"}
      [] step = "gpio_request" -> {"gpio"}
      [] OTHER -> {}

\* negative error numbers a failing kernel call returns (-ENOMEM, -EBUSY,
\* -EINVAL)
ErrnoValues == {-12, -16, -22}

\* everything held when step number k is reached
HeldBefore(k) == UNION {ResourceOf(InitSteps[j]) : j \in 1..(k - 1)}

\* ret at the goto of a failing step: the call's own result, except for
\* class_create and device_create, where the code stores -1
ret_at_failure(step, result) ==
    IF step \in {"class_create", "device_create"} THEN -1 ELSE result

\* what the labels from the failing step's goto down to the return release
released_from(step) ==
    CASE step = "gpio_direction_output" ->
             {"gpio", "cdev", "device", "class", "devno"}
      [] step \in {"gpio_request", "gpio_is_valid"} ->
             {"cdev", "device", "class", "devno"}
      [] step = "cdev_add" -> {"device", "class", "devno"}
      [] step = "device_create" -> {"class", "devno"}
      [] step = "class_create" -> {"devno"}
      [] OTHER -> {}

\* results with which a step fails: gpio_is_valid fails by returning false,
\* the others by an error number
FailureResults(step) == IF step = "gpio_is_valid" THEN {0} ELSE ErrnoValues

\* desd_led_init when every step succeeds
desd_led_init_success ==
    /\ ~led_loaded
    /\ led_state' = 0
    /\ acquired' = HeldBefore(Len(InitSteps) + 1)
    /\ gpio_level' = 0
    /\ init_ret' = <<0>>
    /\ led_loaded' = TRUE
    /\ failed_step' = "none"
    /\ over_released' = {}
    /\ last_write' = <<>>
    /\ last_read' = <<>>
    /\ last_command' = "none"
    /\ UNCHANGED outside_led

\* desd_led_init when step number k fails with the given result
desd_led_init_failure ==
    /\ ~led_loaded
    /\ \E k \in 1..Len(InitSteps) : \E result \in FailureResults(InitSteps[k]) :
        /\ acquired' = HeldBefore(k) \ released_from(InitSteps[k])
        /\ over_released' = released_from(InitSteps[k]) \ HeldBefore(k)
        /\ init_ret' = <<ret_at_failure(InitSteps[k], result)>>
        /\ led_loaded' = (ret_at_failure(InitSteps[k], result) >= 0)
        /\ failed_step' = InitSteps[k]
    /\ led_state' = 0
    /\ gpio_level' = -1
    /\ last_write' = <<>>
    /\ last_read' = <<>>
    /\ last_command' = "none"
    /\ UNCHANGED outside_led

\* desd_led_exit releases all five resources, held or not
desd_led_exit ==
    /\ led_loaded
    /\ led_loaded' = FALSE
    /\ over_released' = {"gpio", "cdev", "device", "class", "devno"} \ acquired
    /\ acquired' = {}
    /\ gpio_level' = -1
    /\ init_ret' = <<>>
    /\ UNCHANGED <<led_state, failed_step, last_write, last_read, last_command>>
    /\ UNCHANGED outside_led

\* the device file exists and its operations can be called
DeviceFile == led_loaded /\ {"device", "cdev"} \subseteq acquired

\* user memory at ubuf given to write: its bytes, or <<>> when unreadable
UserMemory == {<<>>, <<"0">>, <<"1">>, <<"2">>, <<"1", "0">>, <<"0", "1">>}

\* copy_from_user(kbuf, ubuf, 1): the number of bytes not copied
copy_from_user(mem) == IF mem = <<>> THEN 1 ELSE 0

\* kbuf[0] after the copy; kbuf starts as ""
kbuf_after(mem) == IF copy_from_user(mem) = 0 THEN mem[1] ELSE "NUL"

\* a read that answers with the other digit
read_kbuf_inverted(state) ==
    IF state = 1 THEN <<"0", "NUL">> ELSE <<"1", "NUL">>

\* desd_led_read's kbuf for led_state 1 and 0
read_kbuf(state) ==
    IF state = 1 THEN <<"1", "NUL">> ELSE <<"0", "NUL">>

\* values an int that was never assigned may hold
UninitInts == {0, 2}

\* desd_led_write: one byte is fetched from ubuf whatever bufsize is
desd_led_write ==
    /\ DeviceFile
    /\ \E mem \in UserMemory : \E bufsize \in 0..2 :
        /\ IF kbuf_after(mem) = "1"
           THEN led_state' = 1 /\ gpio_level' = 1
           ELSE IF kbuf_after(mem) = "0"
           THEN led_state' = 0 /\ gpio_level' = 0
           ELSE UNCHANGED <<led_state, gpio_level>>
        /\ last_write' = [ubuf |-> mem, bufsize |-> bufsize, ret |-> bufsize]
        /\ last_command' =
               IF mem # <<>> /\ mem[1] \in {"0", "1"} THEN mem[1]
               ELSE last_command
    /\ UNCHANGED <<acquired, led_loaded, init_ret, failed_step, over_released,
                   last_read>>
    /\ UNCHANGED outside_led

\* desd_led_read: two bytes of kbuf go to ubuf, less what copy_to_user could
\* not copy; nbytes is unassigned when led_state is neither 0 nor 1
desd_led_read ==
    /\ DeviceFile
    /\ \E not_copied \in 0..2 :
       \E nbytes \in IF led_state \in {0, 1} THEN {2 - not_copied}
                     ELSE UninitInts :
        last_read' =
            [ubuf |-> IF led_state \in {0, 1}
                      THEN SubSeq(read_kbuf(led_state), 1, 2 - not_copied)
                      ELSE <<>>,
             ret |-> nbytes,
             after |-> last_command]
    /\ UNCHANGED <<led_state, gpio_level, acquired, led_loaded, init_ret,
                   failed_step, over_released, last_write, last_command>>
    /\ UNCHANGED outside_led

InitLed ==
    /\ program = "desd_led"
    /\ calib = <<>>
    /\ LedIdle
    /\ LcdIdle
    /\ SearchIdle
    /\ SensorIdle
    /\ DecodeIdle
    /\ AltitudeIdle
    /\ RemainingIdle

NextLed ==
    \/ desd_led_init_success
    \/ desd_led_init_failure
    \/ desd_led_exit
    \/ desd_led_write
    \/ desd_led_read

SpecLed == InitLed /\ [][NextLed]_vars

(* ----------------------------------------------------------------------- *)
(* Properties of the LED driver                                            *)
(* ----------------------------------------------------------------------- *)
\* desd_led_init succeeded in full and the module is still loaded
LedReady == led_loaded /\ failed_step = "none"

\* the text a read owes the caller after the given command
TextAfter(command) ==
    IF command = "1" THEN <<"1", "NUL">> ELSE <<"0", "NUL">>

LevelAfter(command) == IF command = "1" THEN 1 ELSE 0

IsPrefix(a, b) == Len(a) <= Len(b) /\ a = SubSeq(b, 1, Len(a))

LedTracking ==
    LedReady' =>
        /\ led_state' = LevelAfter(last_command')
        /\ led_state' = gpio_level'
        /\ last_read' # <<>> =>
               /\ IsPrefix(last_read'.ubuf, TextAfter(last_read'.after))
               /\ last_read'.ret = Len(last_read'.ubuf)
        /\ (last_write' # <<>>
                /\ last_write' # last_write
                /\ (last_write'.ubuf = <<>>
                        \/ last_write'.ubuf[1] \notin {"0", "1"}))
               => UNCHANGED <<led_state, gpio_level>>

\* C18: once desd_led_init has succeeded, after any sequence of writes and
\* reads led_state is 1 exactly when the most recent write whose first byte
\* was '0' or '1' began with '1' (0 when there was none), led_state equals the
\* level last driven on the GPIO, a read hands back the text of that state
\* (as many of its two bytes as could be copied), and a write that begins
\* with any other byte leaves led_state and the GPIO level unchanged.
C18_LedStateTracking == [][LedTracking]_vars

C18_Witness ==
    /\ LedReady
    /\ last_command = "1"
    /\ last_write # <<>>
    /\ last_write.ubuf = <<"2">>
    /\ last_read # <<>>
    /\ last_read.ubuf = <<"1", "NUL">>
    /\ gpio_level = 1

\* C19: desd_led_init returns 0 only when every step succeeded, and when a
\* step fails (gpio_is_valid reporting the GPIO invalid included) it returns
\* a nonzero error code after releasing everything it had acquired.
C19_InitResult ==
    init_ret # <<>> =>
        /\ init_ret[1] = 0 => failed_step = "none"
        /\ failed_step # "none" =>
               /\ init_ret[1] # 0
               /\ acquired = {}
               /\ over_released = {}

\* C24: over any lifecycle of the module (desd_led_init with one step failing
\* or none, then desd_led_exit whenever init returned 0) every resource is
\* released only while it is held, hence at most once, and desd_led_exit
\* never runs after init's failure path has released the resources: the
\* module stays loaded only when no step failed.
C24_ReleasedOnce ==
    /\ over_released = {}
    /\ led_loaded => failed_step = "none"

(* ----------------------------------------------------------------------- *)
(* LCD over I2C (src/Lcd_deiver.c)                                         *)
(* ----------------------------------------------------------------------- *)
LCD_CLEAR == 1

LCD_FN_SET_8BIT == 48

LCD_FN_SET_4BIT == 32

LCD_FN_SET_4BIT_2LINES == 40

LCD_DISP_CTRL == 8

LCD_DISP_ON == 12

LCD_ENTRY_MODE == 6

LCD_RS == 0

LCD_EN == 2

LCD_BL == 3

LCD_CMD == 128

BV(n) == 2 ^ n

\* a | b | c | d on uint8_t operands
Or8(a, b, c, d) == Or16(Or16(a, b), Or16(c, d)) % 256

\* the four bytes LcdWrite hands to LcdWriteByte
LcdWriteBytes(rs, high_bits, low_bits, bvrs) ==
    <<Or8(high_bits, bvrs, BV(LCD_EN), BV(LCD_BL)),
      Or8(high_bits, bvrs, BV(LCD_BL), 0),
      Or8(low_bits, bvrs, BV(LCD_EN), BV(LCD_BL)),
      Or8(low_bits, bvrs, BV(LCD_BL), 0)>>

\* high = val & 0xF0, low = (val << 4) & 0xF0, bvrs = 0 for a command
LcdWrite(rs, val) ==
    LcdWriteBytes(rs, (val \div 16) * 16, (val % 16) * 16,
                  IF rs = LCD_CMD THEN 0 ELSE BV(LCD_RS))

\* every byte LcdInit hands to LcdWriteByte when it runs to its end
LcdInitWrites ==
    <<Or16(LCD_FN_SET_8BIT, BV(LCD_EN)), LCD_FN_SET_8BIT,
      Or16(LCD_FN_SET_8BIT, BV(LCD_EN)), LCD_FN_SET_8BIT,
      Or16(LCD_FN_SET_8BIT, BV(LCD_EN)), LCD_FN_SET_8BIT,
      Or16(LCD_FN_SET_4BIT, BV(LCD_EN)), LCD_FN_SET_4BIT,
      LCD_FN_SET_4BIT_2LINES>>
    \o LcdWrite(LCD_CMD, LCD_DISP_CTRL)
    \o LcdWrite(LCD_CMD, LCD_CLEAR)
    \o LcdWrite(LCD_CMD, LCD_ENTRY_MODE)
    \o LcdWrite(LCD_CMD, LCD_DISP_ON)

\* results of i2c_master_send for one byte: 1 byte sent, no message
\* transferred, or an error number (-EIO, -ENXIO, -EREMOTEIO)
SendResults == {1, 0, -5, -6, -121}

\* LcdInit's test after the first write: if(ret != 0) return -1
attention_failed(ret) == ret # 0

InitLcd ==
    /\ program = "desd_lcd"
    /\ calib = <<>>
    /\ LcdIdle
    /\ LedIdle
    /\ SearchIdle
    /\ SensorIdle
    /\ DecodeIdle
    /\ AltitudeIdle
    /\ RemainingIdle

\* the I2C core calls desd_lcd_probe, which calls LcdInit
desd_lcd_probe_called ==
    /\ lcd_pc = "unbound"
    /\ lcd_pc' = "attention"
    /\ lcd_log' = Append(lcd_log, "lcd Probed!!!")
    /\ UNCHANGED <<lcd_bus, lcd_acked, lcd_ret, LcdInit_ret, probe_ret>>
    /\ UNCHANGED outside_lcd

\* LcdInit's first write and its test of the result
LcdInit_attention ==
    /\ lcd_pc = "attention"
    /\ \E sent \in SendResults :
        /\ lcd_bus' = Append(lcd_bus, LcdInitWrites[1])
        /\ lcd_acked' = lcd_acked + (IF sent = 1 THEN 1 ELSE 0)
        /\ lcd_ret' = <<sent>>
        /\ IF attention_failed(sent)
           THEN lcd_pc' = "probe" /\ LcdInit_ret' = <<-1>>
           ELSE lcd_pc' = "LcdInit" /\ UNCHANGED LcdInit_ret
    /\ UNCHANGED <<probe_ret, lcd_log>>
    /\ UNCHANGED outside_lcd

\* each later LcdWriteByte of LcdInit; its result is dropped
LcdWriteByte ==
    /\ lcd_pc = "LcdInit"
    /\ Len(lcd_bus) < Len(LcdInitWrites)
    /\ \E sent \in SendResults :
        /\ lcd_bus' = Append(lcd_bus, LcdInitWrites[Len(lcd_bus) + 1])
        /\ lcd_acked' = lcd_acked + (IF sent = 1 THEN 1 ELSE 0)
    /\ UNCHANGED <<lcd_pc, lcd_ret, LcdInit_ret, probe_ret, lcd_log>>
    /\ UNCHANGED outside_lcd

\* return ret at the end of LcdInit
LcdInit_return ==
    /\ lcd_pc = "LcdInit"
    /\ Len(lcd_bus) = Len(LcdInitWrites)
    /\ LcdInit_ret' = <<lcd_ret[1]>>
    /\ lcd_pc' = "probe"
    /\ UNCHANGED <<lcd_bus, lcd_acked, lcd_ret, probe_ret, lcd_log>>
    /\ UNCHANGED outside_lcd

\* desd_lcd_probe after LcdInit has returned
desd_lcd_probe_return ==
    /\ lcd_pc = "probe"
    /\ lcd_log' = Append(lcd_log,
                      IF LcdInit_ret[1] # 0 THEN "LCD not ready/available."
                      ELSE "LCD is initialized.")
    /\ probe_ret' = <<LcdInit_ret[1]>>
    /\ lcd_pc' = "bound"
    /\ UNCHANGED <<lcd_bus, lcd_acked, lcd_ret, LcdInit_ret>>
    /\ UNCHANGED outside_lcd

NextLcd ==
    \/ desd_lcd_probe_called
    \/ LcdInit_attention
    \/ LcdWriteByte
    \/ LcdInit_return
    \/ desd_lcd_probe_return

SpecLcd == InitLcd /\ [][NextLcd]_vars

(* ----------------------------------------------------------------------- *)
(* Properties of the LCD driver                                            *)
(* ----------------------------------------------------------------------- *)
\* C20: LcdInit returns -1 without going on exactly when the first I2C write
\* of the attention sequence fails; when i2c_master_send reports the one byte
\* as sent, LcdInit performs the whole 4-bit initialization sequence and
\* returns 0, and desd_lcd_probe reports the LCD as initialized.
C20_LcdReadiness ==
    lcd_pc = "bound" =>
        /\ LcdInit_ret = <<-1>> <=> lcd_ret[1] # 1
        /\ LcdInit_ret = <<-1>> => Len(lcd_bus) = 1
        /\ lcd_ret[1] = 1 =>
               /\ lcd_bus = LcdInitWrites
               /\ LcdInit_ret = <<0>>
               /\ probe_ret = <<0>>
               /\ lcd_log = <<"lcd Probed!!!", "LCD is initialized.">>

(* ----------------------------------------------------------------------- *)
(* Properties of the inverse searches' bounds                              *)
(* ----------------------------------------------------------------------- *)
\* the forward functions the two searches probe, at the current coefficients
TemperatureAt(adc) == compensate_temperature(adc, calib).ret

PressureOf(adc) == compensate_pressure(adc, calib)

\* forward(lo) < target <= forward(hi)
Brackets(at_lo, at_hi, target) == DLess(at_lo, target) /\ ~DLess(at_hi, target)

TemperatureInRange ==
    Brackets(TemperatureAt(0), TemperatureAt(ADC_MAX), TargetTemp)

PressureInRange == Brackets(PressureOf(0), PressureOf(ADC_MAX), TargetPress)

\* the search returned because its loop ended, not from inside the loop
LoopEnded(tol, target) ==
    /\ probes # <<>>
    /\ ~within_tolerance(LastProbe.val, target, tol)

\* C21: when forward(0) < target <= forward(16777215), every iteration of
\* either inverse search keeps forward(low) < target and forward(high) >=
\* target with low < high; and a search that returns because its loop ended
\* returns with high = low + 1.
C21_Bracketing ==
    /\ (InTempSearch /\ TemperatureInRange) =>
           /\ low < high
           /\ Brackets(TemperatureAt(low), TemperatureAt(high), TargetTemp)
    /\ (InPressSearch /\ PressureInRange) =>
           /\ low < high
           /\ Brackets(PressureOf(low), PressureOf(high), TargetPress)
    /\ (pc = "rct_ret" /\ LoopEnded(tolerance_temp, TargetTemp)) =>
           high = low + 1
    /\ (pc = "rcp_ret" /\ LoopEnded(tolerance_press, TargetPress)) =>
           high = low + 1

C21_Witness ==
    /\ pc = "rct"
    /\ TemperatureInRange
    /\ Len(probes) > 3
    /\ 0 < low
    /\ high < ADC_MAX
    /\ DLess(TemperatureAt(low), TargetTemp)
    /\ ~DLess(TemperatureAt(high), TargetTemp)

\* n is a value of uint32_t: 0 <= n < 2^32, written with 16-bit halves
FitsUint32(n) == n >= 0 /\ n \div 65536 < 65536

Interior == 1..(ADC_MAX - 1)

\* a step of a search: the bounds it reaches, what it probed, what it
\* returned
InRange ==
    (pc' \in {"rct", "rct_ret", "rcp", "rcp_ret"}) =>
        /\ 0 <= low' /\ low' < high' /\ high' <= ADC_MAX
        /\ FitsUint32(low' + high')
        /\ \A k \in 1..Len(probes') : probes'[k].mid \in Interior
        /\ (probes' # probes /\ probes' # <<>>) =>
               /\ probes'[Len(probes')].mid = mid'
               /\ low < mid' /\ mid' < high
        /\ (pc = "rct" /\ pc' = "rct_ret") =>
               /\ temp_adc' = mid'
               /\ temp_adc' \in Interior
        /\ (pc = "rcp" /\ pc' = "rcp_ret") =>
               /\ press_adc' = mid'
               /\ press_adc' \in Interior

\* C22: in both inverse searches 0 <= low < high <= 16777215 holds
\* throughout, low + high stays within unsigned 32 bits, every probed
\* midpoint lies strictly between the bounds it was computed from, and every
\* probed and every returned value is in [1, 16777214]: 0 and 16777215 are
\* never probed and never returned, whatever the target.
C22_SearchRange == [][InRange]_vars

C22_Witness ==
    /\ pc = "rcp_ret"
    /\ low = ADC_MAX - 1
    /\ high = ADC_MAX
    /\ press_adc = ADC_MAX - 1
    /\ temp_adc \in Interior
    /\ Len(probes) > 20

(* ----------------------------------------------------------------------- *)
(* The two programs' copies side by side: bmp390_parse_calib_data and      *)
(* bmp390_compensate_* (src/unnamed/part_000) against main's decode and    *)
(* compensate_* (src/unnamed/part_001)                                     *)
(* ----------------------------------------------------------------------- *)
\* blocks given to both decoders
CopyBlocks == BaseBlocks \cup {other_calib_bytes, raw_calib_bytes}

\* raw samples given to both compensations
CopySamples == {0, 1048575, 8388608, 16777215}

InitCopies ==
    /\ program = "copies"
    /\ \E u \in UninitDoubles :
          /\ calib = uninitialised_calib(u)
          /\ copy_calib = uninitialised_calib(u)
    /\ copies_pc = "start"
    /\ main_ret = <<>>
    /\ copy_ret = <<>>
    /\ DecodeIdle
    /\ SearchIdle
    /\ SensorIdle
    /\ AltitudeIdle
    /\ DriversIdle
    /\ WritersIdle
    /\ ShellIdle

copies_read_block ==
    /\ copies_pc = "start"
    /\ reg_data = <<>>
    /\ reg_data' \in CopyBlocks
    /\ UNCHANGED <<calib, copies_vars, outside_copies>>

\* each program decodes the block into its own calib
copies_decode ==
    /\ copies_pc = "start"
    /\ reg_data # <<>>
    /\ calib' = bmp390_parse_calib_data(reg_data, calib.t_lin)
    /\ copy_calib' = decode_calib(reg_data, copy_calib.t_lin)
    /\ copies_pc' = "decoded"
    /\ UNCHANGED <<reg_data, main_ret, copy_ret, outside_copies>>

\* what the two temperature functions left and returned
temperatures_compared(main_result, copy_result) ==
    /\ calib' = main_result.calib
    /\ main_ret' = main_result.ret
    /\ copy_calib' = copy_result.calib
    /\ copy_ret' = copy_result.ret

\* each program compensates the same raw temperature
copies_temperature ==
    /\ copies_pc = "decoded"
    /\ \E uncomp_temp \in CopySamples :
          temperatures_compared(
              bmp390_compensate_temperature(uncomp_temp, calib),
              compensate_temperature(uncomp_temp, copy_calib))
    /\ copies_pc' = "temperature"
    /\ UNCHANGED <<reg_data, outside_copies>>

\* each program compensates the same raw pressure, after a temperature or
\* with the t_lin it started with
copies_pressure ==
    /\ copies_pc \in {"decoded", "temperature"}
    /\ \E uncomp_press \in CopySamples :
          /\ main_ret' = bmp390_compensate_pressure(uncomp_press, calib)
          /\ copy_ret' = compensate_pressure(uncomp_press, copy_calib)
    /\ copies_pc' = "pressure"
    /\ UNCHANGED <<calib, copy_calib, reg_data, outside_copies>>

NextCopies ==
    \/ copies_read_block
    \/ copies_decode
    \/ copies_temperature
    \/ copies_pressure

SpecCopies == InitCopies /\ [][NextCopies]_vars

\* C23: for every calibration block the reverse calculator's inline decode
\* yields the same 14 coefficients as bmp390_parse_calib_data, and for every
\* raw sample and coefficient state compensate_temperature and
\* compensate_pressure return the same values and leave the same t_lin as
\* bmp390_compensate_temperature and bmp390_compensate_pressure.
C23_CopiesEquivalent ==
    copies_pc # "start" =>
        /\ Coefficients(copy_calib) = Coefficients(calib)
        /\ copy_calib.t_lin = calib.t_lin
        /\ copy_ret = main_ret

C23_Witness ==
    /\ copies_pc = "pressure"
    /\ reg_data = raw_calib_data
    /\ calib.t_lin \notin UninitDoubles
    /\ copy_calib.t_lin = calib.t_lin
    /\ main_ret # <<>>
    /\ copy_ret = main_ret
    /\ calib.par_p9 = DDivPow2(DFromInt(-8192), 48)

(* ----------------------------------------------------------------------- *)
(* Two concurrent desd_led_write calls (src/gpio.c)                        *)
(* ----------------------------------------------------------------------- *)
Writers == {1, 2}

\* the first byte each caller may hand over
WriterBytes == {"0", "1", "2"}

InitWriters ==
    /\ program = "desd_led"
    /\ calib = <<>>
    /\ LedIdle
    /\ LcdIdle
    /\ writer_pc = [th \in Writers |-> "idle"]
    /\ writer_kbuf = [th \in Writers |-> "NUL"]
    /\ writer_arg = [th \in Writers |-> 0]
    /\ SearchIdle
    /\ SensorIdle
    /\ DecodeIdle
    /\ AltitudeIdle
    /\ CopiesIdle
    /\ ShellIdle

led_frame ==
    <<acquired, led_loaded, init_ret, failed_step, over_released, last_write,
      last_read, last_command>>

\* desd_led_write up to and including copy_from_user
write_copy_from_user(th) ==
    /\ DeviceFile
    /\ writer_pc[th] = "idle"
    /\ \E byte \in WriterBytes :
          writer_kbuf' = [writer_kbuf EXCEPT ![th] = kbuf_after(<<byte>>)]
    /\ writer_pc' = [writer_pc EXCEPT ![th] = "copied"]
    /\ UNCHANGED <<led_state, gpio_level, writer_arg, led_frame, outside_writers>>

\* led_state = 1, led_state = 0, or neither branch
write_led_state(th) ==
    /\ writer_pc[th] = "copied"
    /\ IF writer_kbuf[th] = "1"
       THEN led_state' = 1 /\ writer_pc' = [writer_pc EXCEPT ![th] = "stored"]
       ELSE IF writer_kbuf[th] = "0"
       THEN led_state' = 0 /\ writer_pc' = [writer_pc EXCEPT ![th] = "stored"]
       ELSE UNCHANGED led_state
            /\ writer_pc' = [writer_pc EXCEPT ![th] = "returned"]
    /\ UNCHANGED <<gpio_level, writer_kbuf, writer_arg, led_frame, outside_writers>>

\* the argument of gpio_set_value(DESD_LED, led_state): led_state is read
\* with no lock held, so the call gets what memory holds now or the value
\* this call has just stored
write_argument(th) ==
    /\ writer_pc[th] = "stored"
    /\ \E value \in {led_state, IF writer_kbuf[th] = "1" THEN 1 ELSE 0} :
          writer_arg' = [writer_arg EXCEPT ![th] = value]
    /\ writer_pc' = [writer_pc EXCEPT ![th] = "argument"]
    /\ UNCHANGED <<led_state, gpio_level, writer_kbuf, led_frame, outside_writers>>

\* gpio_set_value drives the pin; the call then returns bufsize
write_gpio_set_value(th) ==
    /\ writer_pc[th] = "argument"
    /\ gpio_level' = writer_arg[th]
    /\ writer_pc' = [writer_pc EXCEPT ![th] = "returned"]
    /\ UNCHANGED <<led_state, writer_kbuf, writer_arg, led_frame, outside_writers>>

\* the module is loaded by desd_led_init; then the two calls run
NextWriters ==
    \/ desd_led_init_success
    \/ \E th \in Writers :
          \/ write_copy_from_user(th)
          \/ write_led_state(th)
          \/ write_argument(th)
          \/ write_gpio_set_value(th)

SpecWriters == InitWriters /\ [][NextWriters]_vars

\* C25: when a desd_led_write of '1' and one of '0' interleave, in every
\* final state led_state equals the level last driven on the GPIO, so that a
\* later read reports the LED's actual level.
C25_WritersConsistent ==
    (/\ \A th \in Writers : writer_pc[th] = "returned"
     /\ {writer_kbuf[th] : th \in Writers} = {"0", "1"})
        => /\ led_state = gpio_level
           /\ read_kbuf(led_state) = TextAfter(IF gpio_level = 1 THEN "1" ELSE "0")

(* ----------------------------------------------------------------------- *)
(* Shell (src/unnamed/part_000): main's command loop and sigchld_handler   *)
(* ----------------------------------------------------------------------- *)
\* external commands run in one session
MaxCommands == 3

Children == 1..MaxCommands

Forked == {c \in Children : children[c] # "unborn"}

Running == {c \in Children : children[c] = "running"}

Zombies == {c \in Children : children[c] = "zombie"}

InitShell ==
    /\ program = "shell"
    /\ calib = <<>>
    /\ sh_pc = "loop"
    /\ pid = 0
    /\ children = [c \in Children |-> "unborn"]
    /\ background = {}
    /\ in_handler = FALSE
    /\ sigchld_pending = FALSE
    /\ SearchIdle
    /\ SensorIdle
    /\ DecodeIdle
    /\ AltitudeIdle
    /\ DriversIdle
    /\ CopiesIdle
    /\ WritersIdle

\* printf("cmd> "); gets(cmd): main waits for a line
print_prompt ==
    /\ sh_pc = "loop"
    /\ ~in_handler
    /\ sh_pc' = "gets"
    /\ UNCHANGED <<pid, children, background, in_handler, sigchld_pending,
                   outside_shell>>

\* "cd path": chdir, and back to the top of the loop
internal_cd ==
    /\ sh_pc = "gets"
    /\ ~in_handler
    /\ sh_pc' = "loop"
    /\ UNCHANGED <<pid, children, background, in_handler, sigchld_pending,
                   outside_shell>>

\* "exit": _exit(0)
internal_exit ==
    /\ sh_pc = "gets"
    /\ ~in_handler
    /\ sh_pc' = "exited"
    /\ UNCHANGED <<pid, children, background, in_handler, sigchld_pending,
                   outside_shell>>

\* an external command: fork; the parent goes to waitpid(pid, &s, WNOHANG)
\* when the last argument is "&", to waitpid(pid, &s, 0) otherwise
external_command ==
    /\ sh_pc = "gets"
    /\ ~in_handler
    /\ Cardinality(Forked) < MaxCommands
    /\ pid' = Cardinality(Forked) + 1
    /\ children' = [children EXCEPT ![Cardinality(Forked) + 1] = "running"]
    /\ \E ampersand \in BOOLEAN :
          IF ampersand
          THEN /\ background' = background \cup {Cardinality(Forked) + 1}
               /\ sh_pc' = "waitpid_nohang"
          ELSE /\ background' = background
               /\ sh_pc' = "waitpid"
    /\ UNCHANGED <<in_handler, sigchld_pending, outside_shell>>

\* what a wait that finds child c leaves: a zombie is reaped, a child the
\* handler has reaped already gives ECHILD
reaped(c) ==
    IF children[c] = "zombie" THEN [children EXCEPT ![c] = "reaped"] ELSE children

\* waitpid(pid, &s, WNOHANG) returns at once
main_waitpid_nohang ==
    /\ sh_pc = "waitpid_nohang"
    /\ ~in_handler
    /\ children' = reaped(pid)
    /\ sh_pc' = "loop"
    /\ UNCHANGED <<pid, background, in_handler, sigchld_pending, outside_shell>>

\* waitpid(pid, &s, 0) returns once the child has exited
main_waitpid ==
    /\ sh_pc = "waitpid"
    /\ ~in_handler
    /\ children[pid] \in {"zombie", "reaped"}
    /\ children' = reaped(pid)
    /\ sh_pc' = "loop"
    /\ UNCHANGED <<pid, background, in_handler, sigchld_pending, outside_shell>>

\* a child ends (the command finishes, or execvp fails and it calls _exit)
child_exit ==
    /\ sh_pc # "exited"
    /\ \E c \in Running : children' = [children EXCEPT ![c] = "zombie"]
    /\ sigchld_pending' = TRUE
    /\ UNCHANGED <<sh_pc, pid, background, in_handler, outside_shell>>

\* SIGCHLD is delivered: sigchld_handler starts on main's stack, with SIGCHLD
\* blocked while it runs
deliver_sigchld ==
    /\ sh_pc # "exited"
    /\ sigchld_pending
    /\ ~in_handler
    /\ in_handler' = TRUE
    /\ sigchld_pending' = FALSE
    /\ UNCHANGED <<sh_pc, pid, children, background, outside_shell>>

\* the handler's waitpid(-1, &s, 0) returns: with any one zombie, or with
\* ECHILD when no child is left; with children running and no zombie it
\* stays blocked
handler_waitpid ==
    /\ in_handler
    /\ \/ \E c \in Zombies : children' = reaped(c)
       \/ /\ Zombies = {}
          /\ Running = {}
          /\ UNCHANGED children
    /\ in_handler' = FALSE
    /\ UNCHANGED <<sh_pc, pid, background, sigchld_pending, outside_shell>>

NextShell ==
    \/ print_prompt
    \/ internal_cd
    \/ internal_exit
    \/ external_command
    \/ main_waitpid_nohang
    \/ main_waitpid
    \/ child_exit
    \/ deliver_sigchld
    \/ handler_waitpid

SpecShell == InitShell /\ [][NextShell]_vars

\* the handler's waitpid(-1) can return only when a child that is still
\* running exits
HandlerBlocked == in_handler /\ Zombies = {} /\ Running # {}

\* C26: with a command started with "&" still running, the completion of a
\* later foreground command always lets the shell go back to its prompt:
\* neither main's waitpid nor the handler's waitpid(-1) ever holds the shell
\* until the background child exits.
C26_PromptNotBlocked ==
    ~(/\ pid \in Children
      /\ pid \notin background
      /\ children[pid] = "reaped"
      /\ Running # {}
      /\ Running \subseteq background
      /\ HandlerBlocked)

====
